---- MODULE Spec2Model ----
(***************************************************************************)
(* Model of the Comsof validation rule engine: the check catalogue of      *)
(* Backend/automation_for_app.py, the dispatch loop of the validate        *)
(* handlers (Backend/api/validate.py, Backend/app.py) and the historical   *)
(* dispatcher and checks of app.py / automation_for_app.py.                *)
(*                                                                         *)
(* A workspace is a function from layer file names to layers.  A layer is  *)
(* a record [exists, cols, rows]: whether the file is in the workspace,    *)
(* the attribute columns the loaded table exposes, and its rows.  A row    *)
(* carries a field for every column its kind of layer can have; a field    *)
(* whose column is not in cols is never read by a check (pandas raises     *)
(* KeyError on such an access, which the checks' flow models).             *)
(*                                                                         *)
(* A check returns [status, message].  status is the JSON rendering of     *)
(* the Python value: "true", "false" or "null".  message is the sequence   *)
(* of lines appended to output, each line a record of the format string    *)
(* (ASCII, pictographs dropped) and the values interpolated in it.         *)
(***************************************************************************)
EXTENDS Integers, Sequences, FiniteSets, TLC

VARIABLES
    ws,               \* the workspace directory: layer file name -> layer
    checks_data,      \* the 'checks' form field as received
    raises,           \* catalogue names whose function call raises
    selected_checks,  \* the handler's selected_checks list
    k,                \* position of the for loop in selected_checks
    results,          \* the handler's results list
    extract_dir,      \* TRUE while the temporary extraction directory exists
    zip_path,         \* TRUE while the upload saved by index() is on disk
    threads,          \* checks run side by side: what each has read so far
    pc                \* where the handler is

vars == <<ws, checks_data, raises, selected_checks, k, results, extract_dir, zip_path,
          threads, pc>>

-----------------------------------------------------------------------------
(* Bounds of the model *)

MaxRequested == 2
MaxOscRows == 3
MaxRows == 2
MaxSplices == 9

-----------------------------------------------------------------------------
(* Values *)

True == "true"
False == "false"
None == "null"

\* pandas missing value in an object (string) column
NA == "<NA>"
\* pandas missing value in a numeric column
NaN == -9999

\* Series.isna() on an object column and on a numeric column
isna(x) == x = NA
isnan(x) == x = NaN

Line(text, file, n, names, nums) ==
    [text |-> text, file |-> file, n |-> n, names |-> names, nums |-> nums]

Ret(status, output) == [status |-> status, message |-> output]

RECURSIVE SeqsUpTo(_, _)
SeqsUpTo(S, n) ==
    IF n = 0 THEN {<<>>}
    ELSE LET shorter == SeqsUpTo(S, n - 1)
         IN  shorter \cup {Append(s, x) : s \in {t \in shorter : Len(t) = n - 1}, x \in S}

\* gdf[mask]: the rows selected by a boolean mask, in order
RECURSIVE Select(_, _)
Select(rows, mask) ==
    IF rows = <<>> THEN <<>>
    ELSE LET n == Len(rows)
             init == Select(SubSeq(rows, 1, n - 1), SubSeq(mask, 1, n - 1))
         IN  IF mask[n] THEN Append(init, rows[n]) ELSE init

any(mask) == \E i \in DOMAIN mask : mask[i]
sum(mask) == Cardinality({i \in DOMAIN mask : mask[i]})

-----------------------------------------------------------------------------
(* Layers *)

NoFile == [exists |-> FALSE, cols |-> {}, rows |-> <<>>]
Layer(cols, rows) == [exists |-> TRUE, cols |-> cols, rows |-> rows]
\* a file that is on disk but is no readable shapefile (truncated, or its
\* .shx/.dbf companions are gone)
Unreadable == [exists |-> TRUE, cols |-> {}, rows |-> <<>>, unreadable |-> TRUE]

\* variant in which a file that cannot be read loads as an empty layer
read_file_tolerates_unreadable(gdf) == FALSE

\* gpd.read_file(path) raises for a file that is no readable shapefile
read_file_raises(gdf) == "unreadable" \in DOMAIN gdf

\* the line the except clause of a check appends for the exception of
\* gpd.read_file: prefix, then str(e), which names the file
ReadError(prefix, file) == Line(prefix \o ": {e}", file, 0, <<>>, <<>>)

ClosureCols == {"LINKED_AGG", "IDENTIFIER", "VIRTUAL", "ID", "LAYER", "EQ_ID"}
ClosureRow(linked_agg, identifier, virtual, id, layer, eq_id) ==
    [LINKED_AGG |-> linked_agg, IDENTIFIER |-> identifier, VIRTUAL |-> virtual,
     ID |-> id, LAYER |-> layer, EQ_ID |-> eq_id]

\* OUT_<Tier>Cables.shp
CableCols == {"CABLE_ID", "IDENTIFIER", "CABLEGRAN", "BUNDLEGRAN", "DIAMETER"}
CableRow(cable_id, identifier, cablegran, bundlegran, diameter) ==
    [CABLE_ID |-> cable_id, IDENTIFIER |-> identifier, CABLEGRAN |-> cablegran,
     BUNDLEGRAN |-> bundlegran, DIAMETER |-> diameter]

\* OUT_<Tier>CablePieces.shp
PieceCols == {"CABLE_ID"}
PieceRow(cable_id) == [CABLE_ID |-> cable_id]

\* OUT_UsedSegments.shp
SegmentCols == {"TYPE", "GISTOOL_ID", "ID"}
SegmentRow(type, gistool_id, id) == [TYPE |-> type, GISTOOL_ID |-> gistool_id, ID |-> id]

\* OUT_Splices.shp
SpliceCols == {"ID"}
SpliceRow(id) == [ID |-> id]

\* Cluster layers: a polygon is an axis-parallel closed box, or null
NullGeom == [null |-> TRUE, x1 |-> 0, x2 |-> 0, y1 |-> 0, y2 |-> 0]
Box(x1, x2, y1, y2) == [null |-> FALSE, x1 |-> x1, x2 |-> x2, y1 |-> y1, y2 |-> y2]
ClusterCols == {"CAB_GROUP", "AGG_ID"}
ClusterRow(geometry, cab_group, agg_id) ==
    [geometry |-> geometry, CAB_GROUP |-> cab_group, AGG_ID |-> agg_id]

\* Point layers: coordinates in thousandths of a CRS unit
PointRow(x, y) == [x |-> x, y |-> y]

ClosuresFile == "OUT_Closures.shp"
UsedSegmentsFile == "OUT_UsedSegments.shp"
SplicesFile == "OUT_Splices.shp"
FeederPointsFile == "OUT_FeederPoints.shp"
PrimPointsFile == "OUT_PrimDistributionPoints.shp"
CablesFile(layer) == "OUT_" \o layer \o "Cables.shp"
PiecesFile(layer) == "OUT_" \o layer \o "CablePieces.shp"

Dashes == Line("------------------------------------------------------------", "", 0, <<>>, <<>>)

\* the line of the except clause for gdf[col] on a missing column:
\* str(KeyError(col)) is the quoted column name
KeyError(col) == Line("Unexpected error: '{col}'", "", 0, <<col>>, <<>>)
\* and for gdf[[...]] with missing columns
KeyErrorIndex(prefix, cols) == Line(prefix \o ": \"[{cols}] not in index\"", "", 0, cols, <<>>)

\* first n elements of a sequence: head(n), [:n]
head(s, n) == SubSeq(s, 1, IF Len(s) < n THEN Len(s) ELSE n)

\* the values of one column, in row order
Column(rows, col) == [i \in DOMAIN rows |-> rows[i][col]]

\* Series.unique(): the distinct values in order of first appearance
RECURSIVE unique(_)
unique(values) ==
    IF values = <<>> THEN <<>>
    ELSE LET n == Len(values)
             init == unique(SubSeq(values, 1, n - 1))
         IN  IF \E i \in DOMAIN init : init[i] = values[n] THEN init ELSE Append(init, values[n])

\* the number of occurrences of v in values
count_of(values, v) == Cardinality({i \in DOMAIN values : values[i] = v})

\* keys ordered by descending count in values; keys with equal counts keep
\* their order
RECURSIVE sort_by_count(_, _)
sort_by_count(keys, values) ==
    IF keys = <<>> THEN <<>>
    ELSE LET m == CHOOSE i \in DOMAIN keys :
                    /\ \A j \in DOMAIN keys : count_of(values, keys[j]) <= count_of(values, keys[i])
                    /\ \A j \in 1..(i - 1) : count_of(values, keys[j]) < count_of(values, keys[i])
         IN  <<keys[m]>>
             \o sort_by_count([i \in 1..(Len(keys) - 1) |->
                                  IF i < m THEN keys[i] ELSE keys[i + 1]], values)

\* Series.value_counts().reset_index(): the values that are not missing,
\* each once, with the most frequent first
value_counts(values) ==
    sort_by_count(unique(Select(values, [i \in DOMAIN values |-> ~isna(values[i])])), values)

\* variant without the column test: no column is ever reported missing
missing_cols_unchecked(required, cols) == <<>>

\* [col for col in required if col not in gdf.columns]
RECURSIVE missing_cols(_, _)
missing_cols(required, cols) ==
    IF required = <<>> THEN <<>>
    ELSE LET rest == missing_cols(Tail(required), cols)
         IN  IF Head(required) \in cols THEN rest ELSE <<Head(required)>> \o rest

-----------------------------------------------------------------------------
(* check_osc_duplicates *)

\* variant that compares neighbouring rows only
duplicated_adjacent(values) ==
    [i \in DOMAIN values |->
        (i > 1 /\ values[i - 1] = values[i]) \/ (i < Len(values) /\ values[i + 1] = values[i])]

\* variant with keep='first': the first occurrence of a value is not marked
duplicated_keep_first(values) ==
    [i \in DOMAIN values |-> \E j \in DOMAIN values : j < i /\ values[j] = values[i]]

\* Series.duplicated(keep=False): every occurrence of a repeated value
\* (missing values count as equal to each other)
duplicated(values) ==
    [i \in DOMAIN values |-> \E j \in DOMAIN values : j # i /\ values[j] = values[i]]

\* variant that conflates "no duplicates" with "could not run"
osc_status_null_when_clean(duplicates) == IF any(duplicates) THEN True ELSE None

\* lines 31-43: the verdict on the duplicates mask
osc_status(duplicates) == IF any(duplicates) THEN True ELSE False

\* lines 25-43: the check once the layer is loaded
osc_report(gdf) ==
    IF "LINKED_AGG" \notin gdf.cols
    THEN Ret(None, <<Line("Error: {col} column not found in the shapefile",
                          "", 0, <<"LINKED_AGG">>, <<>>)>>)
    ELSE LET duplicates == duplicated(Column(gdf.rows, "LINKED_AGG"))
             duplicated_values == Select(Column(gdf.rows, "LINKED_AGG"), duplicates)
             duplicates_df == value_counts(duplicated_values)
         IN  IF any(duplicates)
             THEN Ret(osc_status(duplicates),
                      << Line("We have a problem of duplicated OSCs!", "", 0, <<>>, <<>>),
                         Line("Total duplicated entries: {n}", "", sum(duplicates), <<>>, <<>>),
                         Line("Duplicate occurrences:", "", 0, <<>>, <<>>),
                         Line("table: OSC Value | Duplicate Count", "", 0, duplicates_df,
                              [i \in DOMAIN duplicates_df |->
                                   count_of(duplicated_values, duplicates_df[i])]) >>)
             ELSE Ret(osc_status(duplicates),
                      << Line("Everything is okay - no duplicated OSCs found!",
                              "", 0, <<>>, <<>>) >>)

\* variant that reports a missing closures file as a pass
osc_missing_file_passes(w) ==
    LET gdf == w[ClosuresFile]
    IN  IF ~gdf.exists
        THEN Ret(False, <<Line("Everything is okay - no duplicated OSCs found!",
                               "", 0, <<>>, <<>>)>>)
        ELSE osc_report(gdf)

\* lines 14-47
check_osc_duplicates(w) ==
    LET gdf == w[ClosuresFile]
    IN  IF ~gdf.exists
        THEN Ret(None, <<Line("Error: {file} not found in workspace: {workspace}",
                              ClosuresFile, 0, <<>>, <<>>)>>)
        ELSE IF read_file_raises(gdf)
        THEN Ret(None, <<ReadError("Error reading shapefile", ClosuresFile)>>)
        ELSE osc_report(gdf)

-----------------------------------------------------------------------------
(* process_shapefiles, the read-only check of the current engine *)

\* IDENTIFIER.isna() | (IDENTIFIER == '')
empty_identifier(rows) ==
    [i \in DOMAIN rows |-> isna(rows[i].IDENTIFIER) \/ rows[i].IDENTIFIER = ""]

\* variant that ignores VIRTUAL
problem_closures_mask_any_virtual(rows) ==
    [i \in DOMAIN rows |-> isna(rows[i].IDENTIFIER) \/ rows[i].IDENTIFIER = ""]

\* (VIRTUAL == 0) & (IDENTIFIER.isna() | (IDENTIFIER == ''))
problem_closures_mask(rows) ==
    [i \in DOMAIN rows |->
        rows[i].VIRTUAL = 0 /\ (isna(rows[i].IDENTIFIER) \/ rows[i].IDENTIFIER = "")]

process_shapefiles_feeder(feeder_gdf) ==
    IF "IDENTIFIER" \notin feeder_gdf.cols
    THEN [issues_found |-> TRUE,
          line |-> Line("Feeder cables: {col} column missing entirely",
                        "", 0, <<"IDENTIFIER">>, <<>>)]
    ELSE LET mask == empty_identifier(feeder_gdf.rows)
         IN  IF any(mask)
             THEN [issues_found |-> TRUE,
                   line |-> Line("Feeder cables: {n} record(s) have empty IDENTIFIER and require attention",
                                 "", sum(mask), <<>>, <<>>)]
             ELSE [issues_found |-> FALSE,
                   line |-> Line("Feeder cables: All IDENTIFIER values are populated",
                                 "", 0, <<>>, <<>>)]

\* variant in which a feeder finding is returned as true even when the
\* closures layer cannot be read
process_shapefiles_issue_first(w) ==
    LET header == Line("Processing shapefiles: feeder cables and closures", "", 0, <<>>, <<>>)
        feeder_gdf == w[CablesFile("Feeder")]
        closures_gdf == w[ClosuresFile]
    IN  IF ~feeder_gdf.exists
        THEN Ret(None, <<header, Line("Error: {file} not found in {workspace}",
                                      CablesFile("Feeder"), 0, <<>>, <<>>)>>)
        ELSE
        LET feeder == process_shapefiles_feeder(feeder_gdf)
            output == <<header, feeder.line, Dashes>>
            unreadable == \/ ~closures_gdf.exists
                          \/ ~({"IDENTIFIER", "VIRTUAL"} \subseteq closures_gdf.cols)
        IN  IF unreadable
            THEN Ret(IF feeder.issues_found THEN True ELSE None,
                     Append(output, Line("Error: {file} not found in {workspace}",
                                         ClosuresFile, 0, <<>>, <<>>)))
            ELSE Ret(IF feeder.issues_found \/ any(problem_closures_mask(closures_gdf.rows))
                     THEN True ELSE False,
                     output)

process_shapefiles(w) ==
    LET header == Line("Processing shapefiles: feeder cables and closures", "", 0, <<>>, <<>>)
        feeder_gdf == w[CablesFile("Feeder")]
        closures_gdf == w[ClosuresFile]
    IN  IF ~feeder_gdf.exists
        THEN Ret(None, <<header, Line("Error: {file} not found in {workspace}",
                                      CablesFile("Feeder"), 0, <<>>, <<>>)>>)
        ELSE IF read_file_raises(feeder_gdf)
        THEN Ret(None, <<header, ReadError("Unexpected error", CablesFile("Feeder"))>>)
        ELSE
        LET feeder == process_shapefiles_feeder(feeder_gdf)
            output == <<header, feeder.line, Dashes>>
        IN  IF ~closures_gdf.exists
            THEN Ret(None, Append(output, Line("Error: {file} not found in {workspace}",
                                               ClosuresFile, 0, <<>>, <<>>)))
            ELSE IF read_file_raises(closures_gdf)
            THEN Ret(None, Append(output, ReadError("Unexpected error", ClosuresFile)))
            ELSE
            LET missing == missing_cols(<<"IDENTIFIER", "VIRTUAL">>, closures_gdf.cols)
            IN  IF missing # <<>>
                THEN Ret(None, Append(output, Line("Error: Missing columns in closures: {cols}",
                                                   "", 0, missing, <<>>)))
                ELSE
                LET mask == problem_closures_mask(closures_gdf.rows)
                IN  IF any(mask)
                    THEN Ret(True,
                             Append(output,
                                    Line("Problem found in closures: {n} non-virtual closures with empty IDENTIFIER",
                                         "", sum(mask), <<>>, <<>>)))
                    ELSE Ret(IF feeder.issues_found THEN True ELSE False,
                             Append(output,
                                    Line("All non-virtual closures have valid IDENTIFIER values",
                                         "", 0, <<>>, <<>>)))

-----------------------------------------------------------------------------
(* check_gistool_id *)

\* variant that looks at the segments of every TYPE
gistool_problem_mask_any_type(rows) ==
    [i \in DOMAIN rows |-> ~isna(rows[i].GISTOOL_ID) /\ rows[i].GISTOOL_ID # ""]

\* TYPE.isin([AERIAL, BURIED]) & ~GISTOOL_ID.isna() & (GISTOOL_ID != '')
gistool_problem_mask(rows) ==
    [i \in DOMAIN rows |->
        rows[i].TYPE \in {"AERIAL", "BURIED"}
        /\ ~isna(rows[i].GISTOOL_ID) /\ rows[i].GISTOOL_ID # ""]

check_gistool_id(w) ==
    LET seg_gdf == w[UsedSegmentsFile]
    IN  IF ~seg_gdf.exists
        THEN Ret(None, <<Line("Error: {file} not found in {workspace}",
                              UsedSegmentsFile, 0, <<>>, <<>>)>>)
        ELSE IF read_file_raises(seg_gdf)
        THEN Ret(None, <<ReadError("Unexpected error", UsedSegmentsFile)>>)
        ELSE
        LET missing == missing_cols(<<"TYPE", "GISTOOL_ID", "ID">>, seg_gdf.cols)
        IN  IF missing # <<>>
            THEN Ret(None, <<Line("Error: Missing required columns: {cols}", "", 0, missing, <<>>)>>)
            ELSE
            LET problem_segments == Select(seg_gdf.rows, gistool_problem_mask(seg_gdf.rows))
                report == head(problem_segments, 5)
            IN  IF problem_segments # <<>>
                THEN Ret(True,
                         << Line("Issues found in UsedSegments:", "", 0, <<>>, <<>>),
                            Line("Found {n} aerial/buried segments with non-empty GISTOOL_ID",
                                 "", Len(problem_segments), <<>>, <<>>),
                            Line("GISTOOL_ID should be empty for aerial/buried segments:",
                                 "", 0, <<>>, <<>>),
                            Line("Showing first 5 problematic segments:", "", 0, <<>>, <<>>),
                            Line("table: TYPE | GISTOOL_ID (quoted) | ID", "", 0,
                                 Column(report, "TYPE")
                                    \o [i \in DOMAIN report |-> "'" \o report[i].GISTOOL_ID \o "'"],
                                 Column(report, "ID")) >>)
                ELSE Ret(False,
                         << Line("All aerial and buried segments have empty GISTOOL_ID values",
                                 "", 0, <<>>, <<>>) >>)

-----------------------------------------------------------------------------
(* check_invalid_cable_refs *)

\* variant without the negation: the pieces that do reference a cable
invalid_pieces_mask_matching(cables, pieces) ==
    LET valid_ids == {cables[i].CABLE_ID : i \in DOMAIN cables}
    IN  [i \in DOMAIN pieces |-> pieces[i].CABLE_ID \in valid_ids]

\* ~pieces.CABLE_ID.isin(set(cables.CABLE_ID))
invalid_pieces_mask(cables, pieces) ==
    LET valid_ids == {cables[i].CABLE_ID : i \in DOMAIN cables}
    IN  [i \in DOMAIN pieces |-> pieces[i].CABLE_ID \notin valid_ids]

cable_types == <<"Feeder", "Drop", "PrimDistribution", "Distribution">>

\* variant in which a missing file counts as an issue
flag_set_by_missing_file(has_issues) == TRUE

\* lines 187-192, 332-334 and 589-599: a missing file (in the diameter check
\* also a missing DIAMETER column) appends a line and continues; the issue
\* flag keeps its value
flag_after_missing_file(has_issues) == has_issues

\* the body of the for loop over cable_types, from the tier at position t on
RECURSIVE cable_refs_loop(_, _, _, _)
cable_refs_loop(w, t, has_issues, output) ==
    IF t > Len(cable_types)
    THEN Ret(IF has_issues THEN True ELSE False, output)
    ELSE
    LET layer == cable_types[t]
        cables == w[CablesFile(layer)]
        pieces == w[PiecesFile(layer)]
    IN  IF ~cables.exists
        THEN cable_refs_loop(w, t + 1, flag_after_missing_file(has_issues),
                 Append(output, Line("Cable file missing: {file}", CablesFile(layer), 0, <<>>, <<>>)))
        ELSE IF ~pieces.exists
        THEN cable_refs_loop(w, t + 1, flag_after_missing_file(has_issues),
                 Append(output, Line("Cable piece file missing: {file}", PiecesFile(layer), 0, <<>>, <<>>)))
        ELSE IF read_file_raises(cables)
        THEN Ret(None, Append(output, ReadError("Unexpected error", CablesFile(layer))))
        ELSE IF read_file_raises(pieces)
        THEN Ret(None, Append(output, ReadError("Unexpected error", PiecesFile(layer))))
        ELSE IF "CABLE_ID" \notin cables.cols \/ "CABLE_ID" \notin pieces.cols
        THEN Ret(None, Append(output, KeyError("CABLE_ID")))
        ELSE
        LET invalid_pieces == Select(pieces.rows, invalid_pieces_mask(cables.rows, pieces.rows))
            invalid_ids == unique(Column(invalid_pieces, "CABLE_ID"))
        IN  IF invalid_pieces = <<>>
            THEN cable_refs_loop(w, t + 1, has_issues,
                     output \o << Line("{layer}CablePieces: All CABLE_IDs are valid.",
                                       "", 0, <<layer>>, <<>>),
                                  Dashes >>)
            ELSE cable_refs_loop(w, t + 1, TRUE,
                     output
                     \o << Line("{layer}CablePieces: Found {n} pieces with {m} invalid CableIDs",
                                "", Len(invalid_pieces), <<layer>>, <<Len(invalid_ids)>>),
                           Line("Invalid CableIDs: {ids}", "", 0, <<>>, head(invalid_ids, 10)) >>
                     \o (IF Len(invalid_ids) > 10
                         THEN <<Line("Showing first 10 of {n} invalid IDs",
                                     "", Len(invalid_ids), <<>>, <<>>)>>
                         ELSE <<>>)
                     \o <<Dashes>>)

check_invalid_cable_refs(w) ==
    cable_refs_loop(w, 1, FALSE,
                    <<Line("Checking CableID references for all cable types", "", 0, <<>>, <<>>)>>)

-----------------------------------------------------------------------------
(* report_splice_counts_by_closure *)

MAX_SPLICE_LIMITS ==
    ("BE16" :> 840) @@ ("flat_dis" :> 288) @@ ("OFDC" :> 96)
    @@ ("Budi-S 9-48 HP" :> 48) @@ ("POC_UG_1-8HP" :> 8) @@ ("Budi-S 49-72 HP" :> 72)

\* gpd.read_file gives an integer ID field the dtype int64, and float64 when
\* a value of the column is missing
is_float(values) == \E i \in DOMAIN values : isnan(values[i])

\* astype(str) of one value of an int64 or of a float64 column:
\* "7", "7.0" and "nan"
astype_str(v, float) ==
    IF isnan(v) THEN [digits |-> 0, suffix |-> "nan"]
    ELSE [digits |-> v, suffix |-> IF float THEN ".0" ELSE ""]

\* splices.ID.value_counts() merged into the closures on the astype(str)
\* renderings of ID (how="left"), fillna(0): the number of splice rows whose
\* rendered ID is the closure's rendered ID; value_counts drops missing IDs
\* and keeps the dtype of the column.
SpliceCount(closures, splices, closure_id) ==
    LET closure_key == astype_str(closure_id, is_float(Column(closures, "ID")))
        splices_float == is_float(Column(splices, "ID"))
    IN  Cardinality({i \in DOMAIN splices :
                        /\ ~isnan(splices[i].ID)
                        /\ astype_str(splices[i].ID, splices_float) = closure_key})

\* the report rows of the closures exceeding the limit of their type
exceeds_limit(identifier, splice_count) ==
    identifier \in DOMAIN MAX_SPLICE_LIMITS /\ splice_count > MAX_SPLICE_LIMITS[identifier]

problematic_closures(closures, splices) ==
    LET report_df == [i \in DOMAIN closures |->
                        [identifier |-> IF isna(closures[i].IDENTIFIER)
                                        THEN "N/A" ELSE closures[i].IDENTIFIER,
                         closure_id |-> astype_str(closures[i].ID,
                                                   is_float(Column(closures, "ID"))),
                         splice_count |-> SpliceCount(closures, splices, closures[i].ID)]]
    IN  Select(report_df,
               [i \in DOMAIN report_df |->
                    exceeds_limit(report_df[i].identifier, report_df[i].splice_count)])

\* variant in which a closure over its limit fails the report
splice_status_fails_on_excess(problematic) == IF problematic # <<>> THEN True ELSE False

\* lines 287-299: the status of the report
splice_status(problematic) == False

report_splice_counts_by_closure(w) ==
    LET header == Line("Reporting splices per closure type", "", 0, <<>>, <<>>)
        closures == w[ClosuresFile]
        splices == w[SplicesFile]
    IN  IF ~closures.exists
        THEN Ret(None, <<header, Line("Missing file: {file}", ClosuresFile, 0, <<>>, <<>>)>>)
        ELSE IF ~splices.exists
        THEN Ret(None, <<header, Line("Missing file: {file}", SplicesFile, 0, <<>>, <<>>)>>)
        ELSE IF read_file_raises(closures)
        THEN Ret(None, <<header, ReadError("Unexpected error", ClosuresFile)>>)
        ELSE IF read_file_raises(splices)
        THEN Ret(None, <<header, ReadError("Unexpected error", SplicesFile)>>)
        ELSE IF "ID" \notin splices.cols \/ "ID" \notin closures.cols
        THEN Ret(None, <<header, KeyError("ID")>>)
        ELSE IF "IDENTIFIER" \notin closures.cols
        THEN Ret(None, <<header, KeyErrorIndex("Unexpected error", <<"IDENTIFIER">>)>>)
        ELSE
        LET problematic == problematic_closures(closures.rows, splices.rows)
        IN  IF problematic # <<>>
            THEN Ret(splice_status(problematic),
                     << header,
                        Line("Closure Type | Closure ID | # Splices | Message", "", 0, <<>>, <<>>),
                        Line("-" \o "* 100", "", 0, <<>>, <<>>) >>
                     \o [i \in DOMAIN problematic |->
                            Line("{identifier} {closure_id} {splice_count} This closure exceeds the maximum number of splices which is {max_limit}",
                                 "", problematic[i].splice_count,
                                 <<problematic[i].identifier, problematic[i].closure_id.suffix>>,
                                 <<problematic[i].closure_id.digits,
                                   MAX_SPLICE_LIMITS[problematic[i].identifier]>>)]
                     \o <<Line("Found {n} closure(s) exceeding splice limits.",
                               "", Len(problematic), <<>>, <<>>)>>)
            ELSE Ret(splice_status(problematic),
                     << header,
                        Line("All closures are within their maximum splice limits.",
                             "", 0, <<>>, <<>>) >>)

-----------------------------------------------------------------------------
(* check_cluster_overlaps *)

cluster_files ==
    << "OUT_DropClusters.shp",
       "OUT_DistributionClusters.shp",
       "OUT_DistributionCableClusters.shp",
       "OUT_PrimDistributionClusters.shp",
       "OUT_PrimDistributionCableClusters.shp",
       "OUT_FeederClusters.shp",
       "OUT_FeederCableClusters.shp" >>

\* the cluster files whose name contains "CableClusters"
IsCableClusters(file) ==
    file \in {"OUT_DistributionCableClusters.shp", "OUT_PrimDistributionCableClusters.shp",
              "OUT_FeederCableClusters.shp"}

\* shapely intersects on closed boxes: they share at least one point
intersects(a, b) ==
    a.x1 <= b.x2 /\ b.x1 <= a.x2 /\ a.y1 <= b.y2 /\ b.y1 <= a.y2

\* variant that keeps the features without geometry
notnull_geometry_keeps_all(rows) == rows

\* gdf[gdf.geometry.notnull()].reset_index(drop=True)
notnull_geometry(rows) == Select(rows, [i \in DOMAIN rows |-> ~rows[i].geometry.null])

\* a layer with its spatial index: sindex is the order in which the index
\* holds the features that have a geometry (their positions after
\* reset_index).  sindex.query returns its hits in that order, which the
\* library does not fix
Indexed(layer, order) ==
    [exists |-> layer.exists, cols |-> layer.cols, rows |-> layer.rows, sindex |-> order]

\* the orders an index over the given features can have
IndexOrders(rows) == Permutations(1 .. Len(notnull_geometry(rows)))

\* gdf.sindex of the layer with the given features with geometry; for a
\* layer that states no order and has at most two such features the order
\* has no effect and is taken ascending
sindex(gdf, rows) ==
    CASE "sindex" \in DOMAIN gdf -> gdf.sindex
      [] "sindex" \notin DOMAIN gdf /\ Len(rows) <= 2 -> [i \in 1 .. Len(rows) |-> i]

\* variant without the test idx < j: both orders and the self-pairs
RECURSIVE overlaps_of_both_orders(_, _, _, _)
overlaps_of_both_orders(rows, order, idx, p) ==
    IF p > Len(order) THEN <<>>
    ELSE (IF intersects(rows[idx].geometry, rows[order[p]].geometry)
          THEN <<(<<idx, order[p]>>)>> ELSE <<>>)
         \o overlaps_of_both_orders(rows, order, idx, p + 1)

\* variant that looks at the first candidate of the query only
overlaps_of_first_candidate(rows, order, idx, p) ==
    LET hits == Select(order, [q \in DOMAIN order |->
                                  intersects(rows[idx].geometry, rows[order[q]].geometry)])
    IN  IF p = 1 /\ hits # <<>> /\ idx < hits[1] THEN <<(<<idx, hits[1]>>)>> ELSE <<>>

\* the pairs appended for feature idx: the candidates j of the spatial index
\* query with idx < j, in the order of the index, from its p-th entry on
RECURSIVE overlaps_of(_, _, _, _)
overlaps_of(rows, order, idx, p) ==
    IF p > Len(order) THEN <<>>
    ELSE (IF idx < order[p] /\ intersects(rows[idx].geometry, rows[order[p]].geometry)
          THEN <<(<<idx, order[p]>>)>> ELSE <<>>)
         \o overlaps_of(rows, order, idx, p + 1)

\* the overlaps list of one layer, from feature idx on
RECURSIVE overlaps_from(_, _, _)
overlaps_from(rows, order, idx) ==
    IF idx > Len(rows) THEN <<>>
    ELSE overlaps_of(rows, order, idx, 1) \o overlaps_from(rows, order, idx + 1)

\* gdf.loc[a].get(col, a): the attribute, or the 0-based row label
cluster_id(gdf, rows, col, a) == IF col \in gdf.cols THEN rows[a][col] ELSE a - 1

RECURSIVE cluster_overlaps_loop(_, _, _, _)
cluster_overlaps_loop(w, f, issues_found, output) ==
    IF f > Len(cluster_files)
    THEN Ret(IF issues_found THEN True ELSE False, output)
    ELSE
    LET file == cluster_files[f]
        gdf == w[file]
    IN  IF ~gdf.exists
        THEN cluster_overlaps_loop(w, f + 1, flag_after_missing_file(issues_found),
                 Append(output, Line("File not found: {file}", file, 0, <<>>, <<>>)))
        ELSE IF read_file_raises(gdf)
        THEN Ret(None, Append(output, ReadError("Error running cluster overlap checks", file)))
        ELSE
        LET rows == notnull_geometry(gdf.rows)
            overlaps == overlaps_from(rows, sindex(gdf, rows), 1)
            shown == head(overlaps, 5)
            col == IF IsCableClusters(file) THEN "CAB_GROUP" ELSE "AGG_ID"
        IN  IF overlaps # <<>>
            THEN cluster_overlaps_loop(w, f + 1, TRUE,
                     output
                     \o <<Line("{file}: {n} overlaps found:", file, Len(overlaps), <<>>, <<>>)>>
                     \o [p \in DOMAIN shown |->
                            Line("Cluster {col} {id_a} overlaps with {col} {id_b}", "", 0, <<col>>,
                                 << cluster_id(gdf, rows, col, shown[p][1]),
                                    cluster_id(gdf, rows, col, shown[p][2]) >>)]
                     \o <<Dashes>>)
            ELSE cluster_overlaps_loop(w, f + 1, issues_found,
                     output \o << Line("{file}: No overlaps detected.", file, 0, <<>>, <<>>),
                                  Dashes >>)

check_cluster_overlaps(w) ==
    cluster_overlaps_loop(w, 1, FALSE,
                          <<Line("Running cluster self-overlap checks...", "", 0, <<>>, <<>>)>>)

-----------------------------------------------------------------------------
(* check_granularity_fields *)

cable_layers == <<"Feeder", "Drop", "Distribution", "PrimDistribution">>

\* variant that tests CABLEGRAN only
invalid_granularity_cablegran_only(rows) == [i \in DOMAIN rows |-> rows[i].CABLEGRAN = -1]

\* (CABLEGRAN == -1) | (BUNDLEGRAN == -1)
invalid_granularity(rows) ==
    [i \in DOMAIN rows |-> rows[i].CABLEGRAN = -1 \/ rows[i].BUNDLEGRAN = -1]

RECURSIVE granularity_loop(_, _, _, _)
granularity_loop(w, t, issues_found, output) ==
    IF t > Len(cable_layers)
    THEN Ret(IF issues_found THEN True ELSE False, output)
    ELSE
    LET file_name == CablesFile(cable_layers[t])
        gdf == w[file_name]
    IN  IF ~gdf.exists
        THEN granularity_loop(w, t + 1, issues_found,
                 Append(output, Line("Missing: {file}", file_name, 0, <<>>, <<>>)))
        ELSE IF read_file_raises(gdf)
        THEN Ret(None, Append(output, ReadError("Error checking granularity fields", file_name)))
        ELSE IF "CABLEGRAN" \notin gdf.cols \/ "BUNDLEGRAN" \notin gdf.cols
        THEN granularity_loop(w, t + 1, TRUE,
                 Append(output, Line("{file} is missing CABLEGRAN or BUNDLEGRAN fields.",
                                     file_name, 0, <<"CABLEGRAN", "BUNDLEGRAN">>, <<>>)))
        ELSE
        LET invalid == Select(gdf.rows, invalid_granularity(gdf.rows))
            preview == head(invalid, 5)
        IN  IF invalid # <<>>
            THEN IF "CABLE_ID" \notin gdf.cols
                 THEN Ret(None,
                          output
                          \o << Line("{file}: {n} invalid rows:", file_name, Len(invalid), <<>>, <<>>),
                                KeyErrorIndex("Error checking granularity fields", <<"CABLE_ID">>) >>)
                 ELSE granularity_loop(w, t + 1, TRUE,
                          output
                          \o << Line("{file}: {n} invalid rows:", file_name, Len(invalid), <<>>, <<>>),
                                Line("table: CABLE_ID | CABLEGRAN | BUNDLEGRAN", "", 0, <<>>,
                                     Column(preview, "CABLE_ID") \o Column(preview, "CABLEGRAN")
                                        \o Column(preview, "BUNDLEGRAN")),
                                Dashes >>)
            ELSE granularity_loop(w, t + 1, issues_found,
                     output \o << Line("{file}: All granularity values are valid.",
                                       file_name, 0, <<>>, <<>>),
                                  Dashes >>)

check_granularity_fields(w) ==
    granularity_loop(w, 1, FALSE,
        <<Line("Checking CABLEGRAN and BUNDLEGRAN values in cable layers...", "", 0, <<>>, <<>>)>>)

-----------------------------------------------------------------------------
(* validate_non_virtual_closures *)

\* variant that flags the virtual closures of every LAYER
virtual_closure_mask_any_layer(rows) == [i \in DOMAIN rows |-> rows[i].VIRTUAL = 1]

\* LAYER.isin([PrimDistribution, Distribution, Drop]) & (VIRTUAL == 1)
virtual_closure_mask(rows) ==
    [i \in DOMAIN rows |->
        rows[i].LAYER \in {"PrimDistribution", "Distribution", "Drop"} /\ rows[i].VIRTUAL = 1]

validate_non_virtual_closures(w) ==
    LET header == Line("Validating non-virtual closures...", "", 0, <<>>, <<>>)
        closures == w[ClosuresFile]
    IN  IF ~closures.exists
        THEN Ret(None, <<header, Line("Error: {file} not found in {workspace}",
                                      ClosuresFile, 0, <<>>, <<>>)>>)
        ELSE IF read_file_raises(closures)
        THEN Ret(None, <<header, ReadError("Unexpected error", ClosuresFile)>>)
        ELSE
        LET missing == missing_cols(<<"LAYER", "VIRTUAL", "EQ_ID">>, closures.cols)
        IN  IF missing # <<>>
            THEN Ret(None, <<header, Line("Error: Missing required columns: {cols}",
                                          "", 0, missing, <<>>)>>)
            ELSE
            LET bad == Select(closures.rows, virtual_closure_mask(closures.rows))
            IN  IF bad # <<>>
                THEN Ret(True,
                         << header,
                            Line("Found {n} closures incorrectly marked as virtual:",
                                 "", Len(bad), <<>>, <<>>),
                            Line("These closure types should never be virtual:", "", 0,
                                 <<"PrimDistribution", "Distribution", "Drop">>, <<>>),
                            Line("table: EQ_ID | LAYER | VIRTUAL", "", 0, Column(bad, "LAYER"),
                                 Column(bad, "EQ_ID") \o Column(bad, "VIRTUAL")) >>)
                ELSE Ret(False,
                         << header,
                            Line("All PrimDistribution, Distribution, and Drop closures are non-virtual as expected.",
                                 "", 0, <<>>, <<>>) >>)

-----------------------------------------------------------------------------
(* validate_feeder_primdistribution_locations *)

\* the default tolerance, 0.01 CRS units, in thousandths of a unit
tolerance == 10

\* the square of feeder_geom.distance(prim_geom), in millionths of a square unit
distance2(a, b) == (a.x - b.x) * (a.x - b.x) + (a.y - b.y) * (a.y - b.y)

\* A layer stores each coordinate k (thousandths) as the double nearest to
\* k/1000, and feeder_geom.distance(prim_geom) is sqrt(dx*dx + dy*dy) in
\* doubles.  The result compares with the double 0.01 as the exact distance
\* compares with 10, except at the exact distance 10, where the rounding of
\* the coordinates decides.  For two points on a line parallel to an axis,
\* with coordinates x and x + 10 on it, x in 0..90: the values of x for
\* which the distance in doubles is below, and above, the double 0.01.
DistanceRoundsBelow ==
    {1, 3, 5, 8, 12, 16, 17, 20, 21, 26, 27, 28, 29, 33, 34, 35, 41, 42, 49, 50,
     61, 62, 63, 64, 65, 66, 67, 68, 69, 70, 76, 77, 78, 79, 80, 81, 82, 83, 84, 85}
DistanceRoundsAbove ==
    {7, 11, 15, 18, 19, 22, 23, 24, 25, 30, 31, 32, 36, 37, 38, 39, 40, 43, 44, 45,
     46, 47, 48, 51, 52, 53, 54, 55, 56, 57, 58, 59, 60, 71, 72, 73, 74, 75, 86, 87,
     88, 89, 90}

\* the sign of distance - tolerance in doubles for two points at the exact
\* distance 10: on a line parallel to an axis with coordinates in 0..100,
\* or anywhere on the grid 0..16, where the distance in doubles is the
\* double 0.01 itself
rounding(a, b) ==
    LET lower == IF a.y = b.y
                 THEN (IF a.x < b.x THEN a.x ELSE b.x)
                 ELSE (IF a.y < b.y THEN a.y ELSE b.y)
    IN  CASE (a.x = b.x \/ a.y = b.y) /\ lower \in 0..90 ->
                 IF lower \in DistanceRoundsBelow THEN -1
                 ELSE IF lower \in DistanceRoundsAbove THEN 1 ELSE 0
          [] a.x # b.x /\ a.y # b.y /\ {a.x, a.y, b.x, b.y} \subseteq 0..16 -> 0

\* the sign of distance - tolerance
distance_sign(a, b) ==
    IF distance2(a, b) < tolerance * tolerance THEN -1
    ELSE IF distance2(a, b) > tolerance * tolerance THEN 1
    ELSE rounding(a, b)

\* variant with <= in place of <
too_close_inclusive(a, b) == distance_sign(a, b) <= 0

\* distance < tolerance
too_close(a, b) == distance_sign(a, b) < 0

\* variant that takes the last feature of the layer
iloc_last(rows) == rows[Len(rows)]

\* geometry.iloc[0]: the first feature of the layer
iloc0(rows) == rows[1]

validate_feeder_primdistribution_locations(w) ==
    LET header == Line("Validating Feeder and Primary Distribution Point locations...",
                       "", 0, <<>>, <<>>)
        feeder_points == w[FeederPointsFile]
        prim_points == w[PrimPointsFile]
    IN  IF ~feeder_points.exists
        THEN Ret(None, <<header, Line("Error: {file} not found", FeederPointsFile, 0, <<>>, <<>>)>>)
        ELSE IF ~prim_points.exists
        THEN Ret(None, <<header, Line("Error: {file} not found", PrimPointsFile, 0, <<>>, <<>>)>>)
        ELSE IF read_file_raises(feeder_points)
        THEN Ret(None, <<header, ReadError("Unexpected error", FeederPointsFile)>>)
        ELSE IF read_file_raises(prim_points)
        THEN Ret(None, <<header, ReadError("Unexpected error", PrimPointsFile)>>)
        ELSE
        LET warnings ==
                (IF Len(feeder_points.rows) # 1
                 THEN <<Line("Warning: {file} has {n} features (expected 1)",
                             FeederPointsFile, Len(feeder_points.rows), <<>>, <<>>)>>
                 ELSE <<>>)
                \o (IF Len(prim_points.rows) # 1
                    THEN <<Line("Warning: {file} has {n} features (expected 1)",
                                PrimPointsFile, Len(prim_points.rows), <<>>, <<>>)>>
                    ELSE <<>>)
            output == <<header>> \o warnings
        IN  IF Len(feeder_points.rows) > 0 /\ Len(prim_points.rows) > 0
            THEN LET feeder_geom == iloc0(feeder_points.rows)
                     prim_geom == iloc0(prim_points.rows)
                 IN  IF too_close(feeder_geom, prim_geom)
                     THEN Ret(True,
                              output
                              \o << Line("CRITICAL ISSUE: Feeder and Primary Distribution Points are too close!",
                                         "", 0, <<>>, <<>>),
                                    Line("Distance between points: {distance} units (tolerance: {tolerance} units)",
                                         "", distance2(feeder_geom, prim_geom), <<>>, <<tolerance>>),
                                    Line("Feeder Point location: X={x}, Y={y}", "", 0, <<>>,
                                         <<feeder_geom.x, feeder_geom.y>>),
                                    Line("Primary Distribution Point location: X={x}, Y={y}", "", 0,
                                         <<>>, <<prim_geom.x, prim_geom.y>>),
                                    Line("These points should not be co-located. Please verify in GIS software.",
                                         "", 0, <<>>, <<>>) >>)
                     ELSE Ret(False,
                              output
                              \o << Line("Validation passed - points are sufficiently separated",
                                         "", 0, <<>>, <<>>),
                                    Line("Distance between points: {distance} units (minimum required: {tolerance} units)",
                                         "", distance2(feeder_geom, prim_geom), <<>>, <<tolerance>>) >>)
            ELSE Ret(None,
                     Append(output,
                            Line("Cannot perform validation - one or both files are empty",
                                 "", 0, <<>>, <<>>)))

-----------------------------------------------------------------------------
(* validate_cable_diameters *)

cable_files ==
    <<"OUT_DistributionCables.shp", "OUT_FeederCables.shp", "OUT_PrimDistributionCables.shp">>

\* variant that tests for zero only
invalid_diameter_zero_only(rows) == [i \in DOMAIN rows |-> rows[i].DIAMETER = 0]

\* DIAMETER.isna() | (DIAMETER == 0)
invalid_diameter(rows) ==
    [i \in DOMAIN rows |-> isnan(rows[i].DIAMETER) \/ rows[i].DIAMETER = 0]

RECURSIVE cable_diameters_loop(_, _, _, _, _)
cable_diameters_loop(w, f, has_issues, any_errors, output) ==
    IF f > Len(cable_files)
    THEN Ret(IF has_issues THEN True ELSE False,
             output \o (IF ~any_errors
                        THEN <<Line("All cable files have valid diameter values", "", 0, <<>>, <<>>)>>
                        ELSE <<>>))
    ELSE
    LET file == cable_files[f]
        gdf == w[file]
    IN  IF ~gdf.exists
        THEN cable_diameters_loop(w, f + 1, flag_after_missing_file(has_issues), TRUE,
                 Append(output, Line("Error: {file} not found in workspace", file, 0, <<>>, <<>>)))
        ELSE IF read_file_raises(gdf)
        THEN Ret(None, Append(output, ReadError("Unexpected error", file)))
        ELSE IF "DIAMETER" \notin gdf.cols
        THEN cable_diameters_loop(w, f + 1, flag_after_missing_file(has_issues), TRUE,
                 Append(output, Line("Error: {file} is missing DIAMETER column",
                                     file, 0, <<"DIAMETER">>, <<>>)))
        ELSE
        LET invalid_cables == Select(gdf.rows, invalid_diameter(gdf.rows))
            sample == head(invalid_cables, 5)
            problem == << Line("PROBLEM: Found {n} cables with invalid diameters in {file}",
                               file, Len(invalid_cables), <<>>, <<>>),
                          Line("Cables must have non-zero diameter values", "", 0, <<>>, <<>>) >>
        IN  IF invalid_cables # <<>>
            THEN IF "CABLE_ID" \notin gdf.cols
                 THEN Ret(None,
                          output \o problem
                          \o <<KeyErrorIndex("Unexpected error", <<"CABLE_ID">>)>>)
                 ELSE cable_diameters_loop(w, f + 1, TRUE, TRUE,
                          output \o problem
                          \o << Line("Sample of problematic cables:", "", 0, <<>>, <<>>),
                                Line("table: CABLE_ID | DIAMETER", "", 0, <<>>,
                                     Column(sample, "CABLE_ID") \o Column(sample, "DIAMETER")) >>)
            ELSE cable_diameters_loop(w, f + 1, has_issues, any_errors,
                     Append(output, Line("{file}: All cables have valid diameters",
                                         file, 0, <<>>, <<>>)))

validate_cable_diameters(w) ==
    cable_diameters_loop(w, 1, FALSE, FALSE,
                         <<Line("Validating cable diameters...", "", 0, <<>>, <<>>)>>)

-----------------------------------------------------------------------------
(* The historical checks of automation_for_app.py that differ from the     *)
(* current engine: process_shapefiles rewrites the feeder layer, and the   *)
(* splice report lists every closure.                                      *)

\* variant that fills the missing values only and leaves the empty strings
fill_breakout_missing_only(feeder_gdf) ==
    Layer(feeder_gdf.cols \cup {"IDENTIFIER"},
          [i \in DOMAIN feeder_gdf.rows |->
               IF "IDENTIFIER" \notin feeder_gdf.cols \/ isna(feeder_gdf.rows[i].IDENTIFIER)
               THEN [feeder_gdf.rows[i] EXCEPT !.IDENTIFIER = "Breakout"]
               ELSE feeder_gdf.rows[i]])

\* feeder_gdf after IDENTIFIER is created or its empty values are filled
fill_breakout(feeder_gdf) ==
    IF "IDENTIFIER" \notin feeder_gdf.cols
    THEN Layer(feeder_gdf.cols \cup {"IDENTIFIER"},
               [i \in DOMAIN feeder_gdf.rows |->
                    [feeder_gdf.rows[i] EXCEPT !.IDENTIFIER = "Breakout"]])
    ELSE Layer(feeder_gdf.cols,
               [i \in DOMAIN feeder_gdf.rows |->
                    IF empty_identifier(feeder_gdf.rows)[i]
                    THEN [feeder_gdf.rows[i] EXCEPT !.IDENTIFIER = "Breakout"]
                    ELSE feeder_gdf.rows[i]])

\* the modified flag
feeder_modified(feeder_gdf) ==
    "IDENTIFIER" \notin feeder_gdf.cols \/ any(empty_identifier(feeder_gdf.rows))

\* the workspace the historical process_shapefiles leaves behind:
\* feeder_gdf.to_file(feeder_path) when modified
historical_process_shapefiles_writes(w) ==
    LET feeder_gdf == w[CablesFile("Feeder")]
    IN  IF feeder_gdf.exists /\ ~read_file_raises(feeder_gdf) /\ feeder_modified(feeder_gdf)
        THEN [w EXCEPT ![CablesFile("Feeder")] = fill_breakout(feeder_gdf)]
        ELSE w

historical_process_shapefiles(w) ==
    LET feeder_gdf == w[CablesFile("Feeder")]
        closures_gdf == w[ClosuresFile]
    IN  IF ~feeder_gdf.exists
        THEN Ret(None, <<Line("Error: {file} not found in {workspace}",
                              CablesFile("Feeder"), 0, <<>>, <<>>)>>)
        ELSE IF read_file_raises(feeder_gdf)
        THEN Ret(None, <<ReadError("Unexpected error", CablesFile("Feeder"))>>)
        ELSE
        LET output ==
                IF feeder_modified(feeder_gdf)
                THEN <<Line("Feeder cables: IDENTIFIER column needs to be updated with 'Breakout' values",
                            "", 0, <<>>, <<>>)>>
                ELSE <<Line("Feeder cables: IDENTIFIER column was already populated",
                            "", 0, <<>>, <<>>)>>
        IN  IF ~closures_gdf.exists
            THEN Ret(None, Append(output, Line("Error: {file} not found in {workspace}",
                                               ClosuresFile, 0, <<>>, <<>>)))
            ELSE IF read_file_raises(closures_gdf)
            THEN Ret(None, Append(output, ReadError("Unexpected error", ClosuresFile)))
            ELSE IF "IDENTIFIER" \notin closures_gdf.cols
            THEN Ret(None, Append(output, Line("Error: {col} column not found in OUT_Closures.shp",
                                               ClosuresFile, 0, <<"IDENTIFIER">>, <<>>)))
            ELSE IF "VIRTUAL" \notin closures_gdf.cols
            THEN Ret(None, Append(output, Line("Error: {col} column not found in OUT_Closures.shp",
                                               ClosuresFile, 0, <<"VIRTUAL">>, <<>>)))
            ELSE
            LET problem_closures ==
                    Select(closures_gdf.rows, problem_closures_mask(closures_gdf.rows))
            IN  IF problem_closures # <<>>
                THEN Ret(True,
                         output
                         \o << Line("Problem found in closures:", "", 0, <<>>, <<>>),
                               Line("Found {n} non-virtual closures with empty IDENTIFIER",
                                    "", Len(problem_closures), <<>>, <<>>),
                               Line("These require manual attention:", "", 0, <<>>, <<>>),
                               Line("table: IDENTIFIER | VIRTUAL", "", 0,
                                    Column(problem_closures, "IDENTIFIER"),
                                    Column(problem_closures, "VIRTUAL")) >>)
                ELSE Ret(False,
                         Append(output,
                                Line("All non-virtual closures have valid IDENTIFIER values",
                                     "", 0, <<>>, <<>>)))

\* the splice counts of the closures, sorted in descending order
RECURSIVE sorted_descending(_)
sorted_descending(counts) ==
    IF counts = <<>> THEN <<>>
    ELSE LET m == CHOOSE i \in DOMAIN counts : \A j \in DOMAIN counts : counts[j] <= counts[i]
         IN  <<counts[m]>>
             \o sorted_descending([i \in 1..(Len(counts) - 1) |->
                                      IF i < m THEN counts[i] ELSE counts[i + 1]])

historical_report_splice_counts_by_closure(w) ==
    LET header == Line("Reporting splices per closure type", "", 0, <<>>, <<>>)
        closures == w[ClosuresFile]
        splices == w[SplicesFile]
    IN  IF ~closures.exists
        THEN Ret(None, <<header, Line("Missing file: {file}", ClosuresFile, 0, <<>>, <<>>)>>)
        ELSE IF ~splices.exists
        THEN Ret(None, <<header, Line("Missing file: {file}", SplicesFile, 0, <<>>, <<>>)>>)
        ELSE IF read_file_raises(closures)
        THEN Ret(None, <<header, ReadError("Unexpected error", ClosuresFile)>>)
        ELSE IF read_file_raises(splices)
        THEN Ret(None, <<header, ReadError("Unexpected error", SplicesFile)>>)
        ELSE IF "ID" \notin splices.cols \/ "ID" \notin closures.cols
        THEN Ret(None, <<header, KeyError("ID")>>)
        ELSE IF "IDENTIFIER" \notin closures.cols
        THEN Ret(None, <<header, KeyErrorIndex("Unexpected error", <<"IDENTIFIER">>)>>)
        ELSE Ret(False,
                 << header,
                    Line("Closure Type | Closure ID | # Splices", "", 0, <<>>, <<>>),
                    Dashes,
                    Line("table: # Splices, descending", "", Len(closures.rows), <<>>,
                         sorted_descending([i \in DOMAIN closures.rows |->
                                               SpliceCount(closures.rows, splices.rows,
                                                           closures.rows[i].ID)])),
                    Line("Splice report complete.", "", 0, <<>>, <<>>) >>)

-----------------------------------------------------------------------------
(* The check catalogue and the dispatch loop of the validate handlers *)

\* variant whose default list leaves out the Splice Count Report
default_checks_without_report ==
    << "OSC Duplicates Check",
       "Cluster Overlap Check",
       "Cable Granularity Check",
       "Non-virtual Closure Validation",
       "Point Location Validation",
       "Cable Diameter Validation",
       "Cable Reference Validation",
       "Shapefile Processing",
       "GISTOOL_ID Validation" >>

\* lines 175-187: the list substituted for an empty selection
default_checks ==
    << "OSC Duplicates Check",
       "Cluster Overlap Check",
       "Cable Granularity Check",
       "Non-virtual Closure Validation",
       "Point Location Validation",
       "Cable Diameter Validation",
       "Cable Reference Validation",
       "Shapefile Processing",
       "GISTOOL_ID Validation",
       "Splice Count Report" >>

\* the keys of CHECK_FUNCTIONS
CheckNames == {default_checks[i] : i \in DOMAIN default_checks}

\* CHECK_FUNCTIONS[check_name](workspace)
CHECK_FUNCTIONS(check_name, w) ==
    CASE check_name = "OSC Duplicates Check" -> check_osc_duplicates(w)
      [] check_name = "Cluster Overlap Check" -> check_cluster_overlaps(w)
      [] check_name = "Cable Granularity Check" -> check_granularity_fields(w)
      [] check_name = "Non-virtual Closure Validation" -> validate_non_virtual_closures(w)
      [] check_name = "Point Location Validation" -> validate_feeder_primdistribution_locations(w)
      [] check_name = "Cable Diameter Validation" -> validate_cable_diameters(w)
      [] check_name = "Cable Reference Validation" -> check_invalid_cable_refs(w)
      [] check_name = "Shapefile Processing" -> process_shapefiles(w)
      [] check_name = "GISTOOL_ID Validation" -> check_gistool_id(w)
      [] check_name = "Splice Count Report" -> report_splice_counts_by_closure(w)

\* variant with the historical Shapefile Processing, which writes the feeder layer
workspace_after_historical(check_name, w) ==
    IF check_name = "Shapefile Processing" THEN historical_process_shapefiles_writes(w) ELSE w

\* the workspace a check of the current engine leaves behind: no check
\* writes a file
workspace_after(check_name, w) == w

\* str(e) of an exception that escapes a check function
EscapedError == "exception escaped the check function"

NotFoundEntry(check_name) ==
    <<check_name, None, <<Line("Check function not found", "", 0, <<>>, <<>>)>> >>
ErrorEntry(check_name, e) ==
    <<check_name, None, <<Line("Error running check: {e}", "", 0, <<e>>, <<>>)>> >>

\* variant that records nothing for an unknown name or a raising check
loop_body_drops_errors(check_name, w, r) ==
    IF check_name \in CheckNames /\ check_name \notin r
    THEN LET res == CHECK_FUNCTIONS(check_name, w)
         IN  <<(<<check_name, res.status, res.message>>)>>
    ELSE <<>>

\* variant that looks the function up without the membership test
loop_body_lookup_raises(check_name, w, r) ==
    IF check_name \in CheckNames /\ check_name \notin r
    THEN LET res == CHECK_FUNCTIONS(check_name, w)
         IN  <<(<<check_name, res.status, res.message>>)>>
    ELSE <<ErrorEntry(check_name, IF check_name \in r THEN EscapedError ELSE check_name)>>

\* what one iteration of "for check_name in selected_checks" appends to results
loop_body(check_name, w, r) ==
    IF check_name \in CheckNames
    THEN IF check_name \in r
         THEN <<ErrorEntry(check_name, EscapedError)>>
         ELSE LET res == CHECK_FUNCTIONS(check_name, w)
              IN  <<(<<check_name, res.status, res.message>>)>>
    ELSE <<NotFoundEntry(check_name)>>

\* json.loads(checks_data); JSONDecodeError gives []
json_loads(data) == IF data.valid THEN data.value ELSE <<>>

\* a 'checks' field whose JSON text is the number n
JsonNumber(n) == [valid |-> TRUE, value |-> n, number |-> TRUE]
is_number(data) == "number" \in DOMAIN data

\* "not selected_checks": the empty list, or the number 0
is_falsy(data) == IF is_number(data) THEN data.value = 0 ELSE json_loads(data) = <<>>

\* "for check_name in selected_checks" raises TypeError for a number
not_iterable(data) == is_number(data) /\ ~is_falsy(data)

\* lines 168-187: parse the selection, substitute the default catalogue;
\* lines 204 and 228-233: when the selection cannot be iterated the for
\* statement raises and the outer handler returns the 500 response
ParseChecks ==
    /\ pc = "parse"
    /\ selected_checks' = (IF is_falsy(checks_data)
                           THEN default_checks ELSE json_loads(checks_data))
    /\ k' = 1
    /\ pc' = (IF not_iterable(checks_data) THEN "error" ELSE "run")
    /\ UNCHANGED <<ws, checks_data, raises, results, extract_dir, zip_path, threads>>

\* variant without the try of line 206: an exception of a check function
\* leaves the loop for the outer except of line 228
RunCheck_without_try ==
    /\ pc = "run"
    /\ k <= Len(selected_checks)
    /\ IF selected_checks[k] \in CheckNames \cap raises
       THEN /\ pc' = "error"
            /\ UNCHANGED <<ws, results, k>>
       ELSE /\ results' = results \o loop_body(selected_checks[k], ws, raises)
            /\ ws' = (IF selected_checks[k] \in CheckNames
                      THEN workspace_after(selected_checks[k], ws) ELSE ws)
            /\ k' = k + 1
            /\ pc' = pc
    /\ UNCHANGED <<checks_data, raises, selected_checks, extract_dir, zip_path, threads>>

\* lines 205-214: one iteration of the loop over selected_checks
RunCheck ==
    /\ pc = "run"
    /\ k <= Len(selected_checks)
    /\ results' = results \o loop_body(selected_checks[k], ws, raises)
    /\ ws' = (IF selected_checks[k] \in CheckNames \ raises
              THEN workspace_after(selected_checks[k], ws) ELSE ws)
    /\ k' = k + 1
    /\ UNCHANGED <<checks_data, raises, selected_checks, extract_dir, zip_path, pc, threads>>

\* lines 216-226: remove the extraction directory and return the results
ReturnResults ==
    /\ pc = "run"
    /\ k > Len(selected_checks)
    /\ extract_dir' = FALSE
    /\ pc' = "done"
    /\ UNCHANGED <<ws, checks_data, raises, selected_checks, k, results, zip_path, threads>>

Next == ParseChecks \/ RunCheck \/ ReturnResults

\* lines 336 and 341 in a later call of check_cluster_overlaps: the layer
\* is read and its spatial index built anew, and the order of the new
\* index need not be the order of the one before
Reindex ==
    /\ pc = "run"
    /\ \E i \in DOMAIN cluster_files :
          /\ "sindex" \in DOMAIN ws[cluster_files[i]]
          /\ \E order \in IndexOrders(ws[cluster_files[i]].rows) \ {ws[cluster_files[i]].sindex} :
                ws' = [ws EXCEPT ![cluster_files[i]] = Indexed(ws[cluster_files[i]], order)]
    /\ UNCHANGED <<checks_data, raises, selected_checks, k, results, extract_dir, zip_path,
                   threads, pc>>

\* the handler with the spatial indexes rebuilt between the calls
NextReindexed == ParseChecks \/ RunCheck \/ ReturnResults \/ Reindex

\* the files a check function reads, in the order of its read_file calls
\* (each after the test that the file exists)
reads(check_name) ==
    CASE check_name = "OSC Duplicates Check" -> <<ClosuresFile>>
      [] check_name = "Cable Reference Validation" ->
            [i \in 1 .. 2 * Len(cable_types) |->
                IF i % 2 = 1 THEN CablesFile(cable_types[(i + 1) \div 2])
                ELSE PiecesFile(cable_types[i \div 2])]
      [] check_name = "Shapefile Processing" -> <<CablesFile("Feeder"), ClosuresFile>>
      [] check_name = "GISTOOL_ID Validation" -> <<UsedSegmentsFile>>
      [] check_name = "Splice Count Report" -> <<ClosuresFile, SplicesFile>>
      [] check_name = "Cluster Overlap Check" -> cluster_files
      [] check_name = "Cable Granularity Check" ->
            [i \in DOMAIN cable_layers |-> CablesFile(cable_layers[i])]
      [] check_name = "Non-virtual Closure Validation" -> <<ClosuresFile>>
      [] check_name = "Point Location Validation" -> <<FeederPointsFile, PrimPointsFile>>
      [] check_name = "Cable Diameter Validation" -> cable_files

\* a check that has been called and has read nothing yet
Started(check_name) ==
    [name |-> check_name, pos |-> 0, loaded |-> [f \in {} |-> NoFile], returned |-> FALSE]

\* the workspace as a running check has seen it: the files it has read, as
\* they were when it read them
seen(thread, w) ==
    [f \in DOMAIN w |-> IF f \in DOMAIN thread.loaded THEN thread.loaded[f] ELSE w[f]]

\* one check function tests that its next file exists and reads it
ThreadRead(t) ==
    /\ pc = "run"
    /\ ~threads[t].returned
    /\ threads[t].pos < Len(reads(threads[t].name))
    /\ LET f == reads(threads[t].name)[threads[t].pos + 1]
       IN  threads' = [threads EXCEPT
                          ![t].pos = @ + 1,
                          ![t].loaded = [g \in DOMAIN @ \cup {f} |-> IF g = f THEN ws[f] ELSE @[g]]]
    /\ UNCHANGED <<ws, checks_data, raises, selected_checks, k, results, extract_dir, zip_path, pc>>

\* one check function returns its result, computed from what it has read,
\* and the dispatcher appends the entry (lines 207-208)
ThreadReturn(t) ==
    /\ pc = "run"
    /\ ~threads[t].returned
    /\ threads[t].pos = Len(reads(threads[t].name))
    /\ results' = results \o loop_body(threads[t].name, seen(threads[t], ws), raises)
    /\ ws' = workspace_after(threads[t].name, ws)
    /\ threads' = [threads EXCEPT ![t].returned = TRUE]
    /\ UNCHANGED <<checks_data, raises, selected_checks, k, extract_dir, zip_path, pc>>

\* lines 216-226 once every check has returned
ThreadsReturn ==
    /\ pc = "run"
    /\ \A t \in DOMAIN threads : threads[t].returned
    /\ extract_dir' = FALSE
    /\ pc' = "done"
    /\ UNCHANGED <<ws, checks_data, raises, selected_checks, k, results, zip_path, threads>>

\* the requested checks run side by side against the one workspace
NextInterleaved ==
    \/ \E t \in DOMAIN threads : ThreadRead(t)
    \/ \E t \in DOMAIN threads : ThreadReturn(t)
    \/ ThreadsReturn

\* extract_zip_from_bytes returned no workspace: the archive has no output
\* folder and no OUT_Closures.shp
NoWorkspace == <<>>

\* lines 145-166: without a workspace, remove the extraction directory and
\* return the 400 response; otherwise go on to the selection
FindWorkspace ==
    /\ pc = "extracted"
    /\ IF DOMAIN ws = {}
       THEN extract_dir' = FALSE /\ pc' = "not_found"
       ELSE extract_dir' = extract_dir /\ pc' = "parse"
    /\ UNCHANGED <<ws, checks_data, raises, selected_checks, k, results, zip_path, threads>>

\* the handler from the return of extract_zip_from_bytes on
NextRequest == FindWorkspace \/ ParseChecks \/ RunCheck \/ ReturnResults

-----------------------------------------------------------------------------
(* The historical dispatcher: index() of app.py, over the historical checks *)

\* the checks list of index()
historical_checks ==
    << "OSC Duplicates Check",
       "Cable Reference Validation",
       "Shapefile Processing",
       "GISTOOL_ID Validation",
       "Splice Count Report" >>

\* func(workspace) for the functions index() imports
historical_func(check_name, w) ==
    CASE check_name = "OSC Duplicates Check" -> check_osc_duplicates(w)
      [] check_name = "Cable Reference Validation" -> check_invalid_cable_refs(w)
      [] check_name = "Shapefile Processing" -> historical_process_shapefiles(w)
      [] check_name = "GISTOOL_ID Validation" -> check_gistool_id(w)
      [] check_name = "Splice Count Report" -> historical_report_splice_counts_by_closure(w)

\* lines 89-91: one iteration of "for name, func in checks"; an exception
\* leaves the loop for the handler of line 105, which renders the error page
IndexRunCheck ==
    /\ pc = "index"
    /\ k <= Len(selected_checks)
    /\ IF selected_checks[k] \in raises
       THEN /\ pc' = "error"
            /\ UNCHANGED <<ws, results, k>>
       ELSE /\ LET result == historical_func(selected_checks[k], ws)
               IN  results' = Append(results,
                                     <<selected_checks[k], result.status, result.message>>)
            /\ ws' = workspace_after_historical(selected_checks[k], ws)
            /\ k' = k + 1
            /\ pc' = pc
    /\ UNCHANGED <<checks_data, raises, selected_checks, extract_dir, zip_path, threads>>

\* lines 93-95 and 103: register the cleanup callback and return the
\* rendered results; the upload and the extraction directory are on disk
IndexReturn ==
    /\ pc = "index"
    /\ k > Len(selected_checks)
    /\ pc' = "returned"
    /\ UNCHANGED <<ws, checks_data, raises, selected_checks, k, results, extract_dir, zip_path, threads>>

\* lines 96-97 and 99-101: the callback, run after the request, starts
\* with os.remove(zip_path); when the upload is gone os.remove raises, the
\* error is logged, shutil.rmtree is skipped and the directory stays
cleanup_remove ==
    /\ pc = "returned"
    /\ IF zip_path
       THEN zip_path' = FALSE /\ pc' = "removed"
       ELSE zip_path' = zip_path /\ pc' = "done"
    /\ UNCHANGED <<ws, checks_data, raises, selected_checks, k, results, extract_dir, threads>>

\* line 98: shutil.rmtree(extract_dir), a call of its own after os.remove
cleanup_rmtree ==
    /\ pc = "removed"
    /\ extract_dir' = FALSE
    /\ pc' = "done"
    /\ UNCHANGED <<ws, checks_data, raises, selected_checks, k, results, zip_path, threads>>

\* lines 94-101: the callback registered with after_this_request
cleanup == cleanup_remove \/ cleanup_rmtree

\* lines 56-57 in another request: an upload with the same file name is saved
\* to the same zip_path
SameNameSave ==
    /\ pc \in {"index", "returned", "removed"}
    /\ ~zip_path
    /\ zip_path' = TRUE
    /\ UNCHANGED <<ws, checks_data, raises, selected_checks, k, results, extract_dir, pc, threads>>

\* line 97 in another request: the callback of an upload with the same
\* file name removes the file at zip_path
SameNameCleanup ==
    /\ pc \in {"index", "returned", "removed"}
    /\ zip_path
    /\ zip_path' = FALSE
    /\ UNCHANGED <<ws, checks_data, raises, selected_checks, k, results, extract_dir, pc, threads>>

NextHistorical ==
    IndexRunCheck \/ IndexReturn \/ cleanup_remove \/ cleanup_rmtree \/ SameNameSave \/ SameNameCleanup

-----------------------------------------------------------------------------
(* The workspaces the handler is run on *)

Tiers == {"Feeder", "Drop", "PrimDistribution", "Distribution"}

FileNames ==
    {ClosuresFile, UsedSegmentsFile, SplicesFile, FeederPointsFile, PrimPointsFile}
    \cup {CablesFile(t) : t \in Tiers} \cup {PiecesFile(t) : t \in Tiers}
    \cup {cluster_files[i] : i \in DOMAIN cluster_files}

ValidClosures ==
    Layer(ClosureCols, << ClosureRow("A", "POC_UG_1-8HP", 0, 1, "Feeder", 1),
                          ClosureRow("B", "OFDC", 0, 2, "Drop", 2) >>)
ValidCables == Layer(CableCols, <<CableRow(1, "F1", 12, 12, 5)>>)
ValidPieces == Layer(PieceCols, <<PieceRow(1)>>)
ValidSegments ==
    Layer(SegmentCols, <<SegmentRow("AERIAL", "", 1), SegmentRow("DUCT", "G1", 2)>>)
ValidSplices == Layer(SpliceCols, <<SpliceRow(1), SpliceRow(2)>>)
ValidClusters ==
    Layer(ClusterCols, << ClusterRow(Box(0, 1, 0, 1), 1, 1), ClusterRow(Box(3, 4, 0, 1), 2, 2) >>)
OverlappingClusters ==
    Layer(ClusterCols, << ClusterRow(Box(0, 2, 0, 2), 1, 1), ClusterRow(Box(1, 3, 1, 3), 2, 2) >>)

\* a complete workspace violating no rule
ValidWorkspace ==
    [f \in FileNames |->
        CASE f = ClosuresFile -> ValidClosures
          [] f = UsedSegmentsFile -> ValidSegments
          [] f = SplicesFile -> ValidSplices
          [] f = FeederPointsFile -> Layer({}, <<PointRow(0, 0)>>)
          [] f = PrimPointsFile -> Layer({}, <<PointRow(500, 0)>>)
          [] f \in {CablesFile(t) : t \in Tiers} -> ValidCables
          [] f \in {PiecesFile(t) : t \in Tiers} -> ValidPieces
          [] OTHER -> ValidClusters]

\* the directory without any layer
EmptyWorkspace == [f \in FileNames |-> NoFile]

\* the layers of one file: absent, lacking some of the columns in required
\* (with the rows in default_rows), or complete with rows drawn from rowsets
LayerVariants(all_cols, required, default_rows, rowsets) ==
    {NoFile}
    \cup {Layer(all_cols \ missing, default_rows) : missing \in (SUBSET required) \ {{}}}
    \cup {Layer(all_cols, rows) : rows \in rowsets}

\* the layers of one file with every combination of columns and rows
LayerProducts(all_cols, required, rowsets) ==
    {NoFile}
    \cup {Layer(all_cols \ missing, rows) : missing \in SUBSET required, rows \in rowsets}

OscClosures ==
    LayerVariants(ClosureCols, {"LINKED_AGG"}, ValidClosures.rows,
        SeqsUpTo({ClosureRow(v, "OFDC", 0, 1, "Feeder", 1) : v \in {"A", "B", NA}}, MaxOscRows))

OscWorkspaces == {[ValidWorkspace EXCEPT ![ClosuresFile] = c] : c \in OscClosures}

ShapefileFeeder ==
    LayerVariants(CableCols, {"IDENTIFIER"}, ValidCables.rows,
        SeqsUpTo({CableRow(1, v, 12, 12, 5) : v \in {"F1", "", NA}}, MaxRows))
ShapefileClosures ==
    LayerVariants(ClosureCols, {"IDENTIFIER", "VIRTUAL"}, ValidClosures.rows,
        SeqsUpTo({ClosureRow("A", v, virtual, 1, "Feeder", 1) :
                    v \in {"OFDC", "", NA}, virtual \in {0, 1}}, MaxRows))

ShapefileWorkspaces ==
    {[ValidWorkspace EXCEPT ![CablesFile("Feeder")] = f, ![ClosuresFile] = c] :
        f \in ShapefileFeeder, c \in ShapefileClosures}

GistoolSegments ==
    LayerVariants(SegmentCols, SegmentCols, ValidSegments.rows,
        SeqsUpTo({SegmentRow(type, g, 1) :
                    type \in {"AERIAL", "BURIED", "DUCT"}, g \in {"", NA, "G1"}}, MaxRows))

GistoolWorkspaces == {[ValidWorkspace EXCEPT ![UsedSegmentsFile] = g] : g \in GistoolSegments}

CableIds == {1, 2}
RefCables ==
    LayerProducts(CableCols, {"CABLE_ID"},
        SeqsUpTo({CableRow(id, "F1", 12, 12, 5) : id \in CableIds}, MaxRows))
RefPieces ==
    LayerProducts(PieceCols, {"CABLE_ID"},
        SeqsUpTo({PieceRow(id) : id \in CableIds \cup {3}}, MaxRows))
\* cables [1, 2] with pieces [1, 2] and with pieces [1, 2, 3]
RefExampleCables == Layer(CableCols, <<CableRow(1, "F1", 12, 12, 5), CableRow(2, "F1", 12, 12, 5)>>)
RefExamplePieces ==
    { Layer(PieceCols, <<PieceRow(1), PieceRow(2)>>),
      Layer(PieceCols, <<PieceRow(1), PieceRow(2), PieceRow(3)>>) }
\* the last tier: valid, cable file absent, a dangling piece, no CABLE_ID column
RefLastTier ==
    { <<ValidCables, ValidPieces>>, <<NoFile, ValidPieces>>,
      <<ValidCables, Layer(PieceCols, <<PieceRow(1), PieceRow(3)>>)>>,
      <<Layer(CableCols \ {"CABLE_ID"}, ValidCables.rows), ValidPieces>> }

CableRefWorkspaces ==
    {[ValidWorkspace EXCEPT ![CablesFile("Feeder")] = c, ![PiecesFile("Feeder")] = p,
                            ![CablesFile("Distribution")] = last[1],
                            ![PiecesFile("Distribution")] = last[2]] :
        c \in RefCables, p \in RefPieces, last \in RefLastTier}
    \cup {[ValidWorkspace EXCEPT ![CablesFile("Feeder")] = RefExampleCables,
                                 ![PiecesFile("Feeder")] = p] : p \in RefExamplePieces}

SpliceClosures ==
    LayerVariants(ClosureCols, {"IDENTIFIER", "ID"}, ValidClosures.rows,
        SeqsUpTo({ClosureRow("A", v, 0, id, "Feeder", 1) :
                    v \in {"POC_UG_1-8HP", "Unlisted", NA}, id \in {1, 2, NaN}}, MaxRows))
\* n splices of closure 1 followed by m splices of closure 2 and by z
\* splices without an ID
SpliceRows == {[i \in 1..(n + m + z) |->
                    SpliceRow(IF i <= n THEN 1 ELSE IF i <= n + m THEN 2 ELSE NaN)] :
                    n \in 0..MaxSplices, m \in 0..1, z \in 0..1}
SpliceSplices == LayerVariants(SpliceCols, {"ID"}, ValidSplices.rows, SpliceRows)

SpliceWorkspaces ==
    {[ValidWorkspace EXCEPT ![ClosuresFile] = c, ![SplicesFile] = sp] :
        c \in SpliceClosures, sp \in SpliceSplices}

\* three boxes that intersect pairwise, around a feature without geometry
TripleClusters ==
    Layer(ClusterCols, << ClusterRow(Box(0, 2, 0, 2), 1, 1), ClusterRow(NullGeom, 2, 2),
                          ClusterRow(Box(1, 3, 1, 3), 3, 3), ClusterRow(Box(2, 4, 0, 2), 4, 4) >>)

ClusterBoxes == {Box(0, 1, 0, 1), Box(1, 2, 0, 1), Box(3, 4, 0, 1), NullGeom}
\* a layer with every order its spatial index can have
IndexedLayers(layer) ==
    IF layer.exists THEN {Indexed(layer, order) : order \in IndexOrders(layer.rows)}
    ELSE {layer}

ClusterLayers ==
    UNION {IndexedLayers(layer) :
              layer \in LayerProducts(ClusterCols, ClusterCols,
                            SeqsUpTo({ClusterRow(g, 7, 8) : g \in ClusterBoxes}, MaxRows))}

ClusterWorkspaces ==
    {[ValidWorkspace EXCEPT ![cluster_files[1]] = first, ![cluster_files[7]] = last] :
        first \in ClusterLayers,
        last \in {ValidClusters, NoFile, OverlappingClusters} \cup IndexedLayers(TripleClusters)}

\* cluster layers followed by a last file that is no readable shapefile
UnreadableClusterWorkspaces ==
    {[ValidWorkspace EXCEPT ![cluster_files[1]] = first, ![cluster_files[7]] = Unreadable] :
        first \in {ValidClusters, NoFile, OverlappingClusters}}

GranularityCables ==
    LayerProducts(CableCols, {"CABLEGRAN", "BUNDLEGRAN", "CABLE_ID"},
        SeqsUpTo({CableRow(1, "F1", cg, bg, 5) : cg \in {12, -1}, bg \in {12, -1}}, MaxRows))
\* the last tier: valid, absent, an invalid row, an invalid row without CABLE_ID
GranularityLastTier ==
    { ValidCables, NoFile,
      Layer(CableCols, <<CableRow(1, "F1", -1, 12, 5)>>),
      Layer(CableCols \ {"CABLE_ID"}, <<CableRow(1, "F1", 12, -1, 5)>>) }

GranularityWorkspaces ==
    {[ValidWorkspace EXCEPT ![CablesFile("Feeder")] = first,
                            ![CablesFile("PrimDistribution")] = last] :
        first \in GranularityCables, last \in GranularityLastTier}

NonVirtualClosures ==
    LayerVariants(ClosureCols, {"LAYER", "VIRTUAL", "EQ_ID"}, ValidClosures.rows,
        SeqsUpTo({ClosureRow("A", "OFDC", virtual, 1, layer, 1) :
                    virtual \in {0, 1},
                    layer \in {"Feeder", "Drop", "Distribution", "PrimDistribution"}}, MaxRows))

NonVirtualWorkspaces ==
    {[ValidWorkspace EXCEPT ![ClosuresFile] = c] : c \in NonVirtualClosures}

\* points at distance 0, 9, 10 (the tolerance) and 10 from the origin, and
\* two points whose decimal coordinates differ by 10 and whose doubles
\* differ by less than the double 0.01
Points == {PointRow(0, 0), PointRow(9, 0), PointRow(10, 0), PointRow(6, 8),
           PointRow(1, 0), PointRow(11, 0)}
PointLayers == LayerVariants({}, {}, <<>>, SeqsUpTo(Points, MaxRows))

PointWorkspaces ==
    {[ValidWorkspace EXCEPT ![FeederPointsFile] = f, ![PrimPointsFile] = p] :
        f \in PointLayers, p \in PointLayers}

DiameterCables ==
    LayerProducts(CableCols, {"DIAMETER", "CABLE_ID"},
        SeqsUpTo({CableRow(1, "F1", 12, 12, d) : d \in {5, 0, NaN}}, MaxRows))

DiameterWorkspaces ==
    {[ValidWorkspace EXCEPT ![cable_files[1]] = first, ![cable_files[2]] = second] :
        first \in DiameterCables,
        second \in {ValidCables, NoFile, Layer(CableCols, <<CableRow(1, "F1", 12, 12, 0)>>),
                    Layer(CableCols \ {"CABLE_ID"}, <<CableRow(1, "F1", 12, 12, 0)>>)}}

\* the workspaces on which a check is exercised
CheckWorkspaces(check_name) ==
    CASE check_name = "OSC Duplicates Check" -> OscWorkspaces
      [] check_name = "Cluster Overlap Check" -> ClusterWorkspaces
      [] check_name = "Cable Granularity Check" -> GranularityWorkspaces
      [] check_name = "Non-virtual Closure Validation" -> NonVirtualWorkspaces
      [] check_name = "Point Location Validation" -> PointWorkspaces
      [] check_name = "Cable Diameter Validation" -> DiameterWorkspaces
      [] check_name = "Cable Reference Validation" -> CableRefWorkspaces
      [] check_name = "Shapefile Processing" -> ShapefileWorkspaces
      [] check_name = "GISTOOL_ID Validation" -> GistoolWorkspaces
      [] check_name = "Splice Count Report" -> SpliceWorkspaces

\* a workspace with empty feeder identifiers, a duplicated OSC and a
\* dangling cable piece
FaultyWorkspace ==
    [ValidWorkspace EXCEPT
        ![CablesFile("Feeder")] = Layer(CableCols, <<CableRow(1, "", 12, 12, 5)>>),
        ![ClosuresFile] = Layer(ClosureCols, << ClosureRow("A", "OFDC", 0, 1, "Feeder", 1),
                                                ClosureRow("A", "OFDC", 0, 2, "Drop", 2) >>),
        ![PiecesFile("Drop")] = Layer(PieceCols, <<PieceRow(3)>>)]

DispatchWorkspaces == {ValidWorkspace, FaultyWorkspace, EmptyWorkspace}

-----------------------------------------------------------------------------
(* The report renderer: the export handlers read the results back from     *)
(* JSON, where true, false and null become True, False and None            *)

\* variant that labels by truthiness, so that None reads as passed
status_text_by_truthiness(status) ==
    IF status = True THEN "Failed" ELSE "Passed"

\* "Passed" if status is False else "Failed" if status is True else "Error"
status_text(status) ==
    IF status = False THEN "Passed"
    ELSE IF status = True THEN "Failed"
    ELSE "Error"

\* the names a caller may send: the catalogue and a name outside it
RequestNames == CheckNames \cup {"Unknown Check"}

-----------------------------------------------------------------------------
(* Specifications.  Init is the handler right after the archive has been   *)
(* extracted and the workspace found in it.                                *)

InitHandler ==
    /\ selected_checks = <<>>
    /\ k = 1
    /\ results = <<>>
    /\ extract_dir = TRUE
    /\ zip_path = FALSE
    /\ threads = <<>>
    /\ pc = "parse"

\* any list of up to MaxRequested names, any one check raising
InitDispatch ==
    /\ ws \in DispatchWorkspaces
    /\ checks_data \in {[valid |-> TRUE, value |-> names] :
                            names \in SeqsUpTo(RequestNames, MaxRequested)}
                        \cup {[valid |-> FALSE, value |-> <<>>]}
    /\ raises \in {{}} \cup {{n} : n \in CheckNames}
    /\ InitHandler

InitCheck(check_name) ==
    /\ ws \in CheckWorkspaces(check_name) \cup {ValidWorkspace, EmptyWorkspace}
    /\ checks_data = [valid |-> TRUE, value |-> <<check_name>>]
    /\ raises = {}
    /\ InitHandler

\* one check of the catalogue on the workspaces that exercise it
InitChecks == \E check_name \in CheckNames : InitCheck(check_name)

InitOsc == InitCheck("OSC Duplicates Check")
InitSplice == InitCheck("Splice Count Report")

\* index() after extract_zip has found the workspace
InitHistorical ==
    /\ ws \in ShapefileWorkspaces \cup {ValidWorkspace, EmptyWorkspace, FaultyWorkspace}
    /\ checks_data = [valid |-> FALSE, value |-> <<>>]
    /\ raises = {}
    /\ selected_checks = historical_checks
    /\ k = 1
    /\ results = <<>>
    /\ extract_dir = TRUE
    /\ zip_path = TRUE
    /\ threads = <<>>
    /\ pc = "index"

\* the historical process_shapefiles run twice on one workspace directory
InitHistoricalTwice ==
    /\ ws \in ShapefileWorkspaces \cup {ValidWorkspace, EmptyWorkspace, FaultyWorkspace}
    /\ checks_data = [valid |-> FALSE, value |-> <<>>]
    /\ raises = {}
    /\ selected_checks = <<"Shapefile Processing", "Shapefile Processing">>
    /\ k = 1
    /\ results = <<>>
    /\ extract_dir = TRUE
    /\ zip_path = TRUE
    /\ threads = <<>>
    /\ pc = "index"
SpecHistoricalTwice == InitHistoricalTwice /\ [][NextHistorical]_vars

\* the handler right after the archive has been extracted, with or without
\* a workspace in it, for any 'checks' field: a list of names, text that is
\* not JSON, or a number
InitRequest ==
    /\ ws \in {ValidWorkspace, EmptyWorkspace, NoWorkspace}
    /\ checks_data \in {[valid |-> TRUE, value |-> names] :
                            names \in SeqsUpTo(RequestNames, MaxRequested)}
                        \cup {[valid |-> FALSE, value |-> <<>>]}
                        \cup {JsonNumber(0), JsonNumber(5)}
    /\ raises \in {{}, {"OSC Duplicates Check"}}
    /\ selected_checks = <<>>
    /\ k = 1
    /\ results = <<>>
    /\ extract_dir = TRUE
    /\ zip_path = FALSE
    /\ threads = <<>>
    /\ pc = "extracted"
SpecRequest == InitRequest /\ [][NextRequest]_vars

Spec == InitDispatch /\ [][Next]_vars
SpecHistorical == InitHistorical /\ [][NextHistorical]_vars
SpecChecks == InitChecks /\ [][Next]_vars
SpecOsc == InitOsc /\ [][Next]_vars
SpecSplice == InitSplice /\ [][Next]_vars

InitCableRefs == InitCheck("Cable Reference Validation")
SpecCableRefs == InitCableRefs /\ [][Next]_vars

InitCluster == InitCheck("Cluster Overlap Check")
SpecCluster == InitCluster /\ [][Next]_vars

\* the Cluster Overlap Check requested twice in one call
InitClusterTwice ==
    /\ ws \in ClusterWorkspaces \cup {ValidWorkspace, EmptyWorkspace}
    /\ checks_data = [valid |-> TRUE,
                      value |-> <<"Cluster Overlap Check", "Cluster Overlap Check">>]
    /\ raises = {}
    /\ InitHandler
SpecClusterTwice == InitClusterTwice /\ [][NextReindexed]_vars

\* the checks of a request, each called and none returned yet
InitInterleaved ==
    /\ ws \in DispatchWorkspaces
    /\ checks_data \in {[valid |-> TRUE, value |-> names] :
                            names \in SeqsUpTo(CheckNames, MaxRequested) \ {<<>>}}
    /\ raises = {}
    /\ selected_checks = checks_data.value
    /\ k = 1
    /\ results = <<>>
    /\ extract_dir = TRUE
    /\ zip_path = FALSE
    /\ threads = [t \in DOMAIN checks_data.value |-> Started(checks_data.value[t])]
    /\ pc = "run"
SpecInterleaved == InitInterleaved /\ [][NextInterleaved]_vars

InitGranularity == InitCheck("Cable Granularity Check")
SpecGranularity == InitGranularity /\ [][Next]_vars

InitDiameter == InitCheck("Cable Diameter Validation")
SpecDiameter == InitDiameter /\ [][Next]_vars

InitGistool == InitCheck("GISTOOL_ID Validation")
SpecGistool == InitGistool /\ [][Next]_vars

InitNonVirtual == InitCheck("Non-virtual Closure Validation")
SpecNonVirtual == InitNonVirtual /\ [][Next]_vars

InitPoints == InitCheck("Point Location Validation")
SpecPoints == InitPoints /\ [][Next]_vars

\* one of the checks that loop over several files, on the workspaces that
\* exercise it and on cluster workspaces with an unreadable file
InitTiers ==
    \E check_name \in {"Cable Reference Validation", "Cable Granularity Check",
                       "Cluster Overlap Check", "Cable Diameter Validation"} :
        /\ ws \in CheckWorkspaces(check_name) \cup {ValidWorkspace, EmptyWorkspace}
                  \cup (IF check_name = "Cluster Overlap Check"
                        THEN UnreadableClusterWorkspaces ELSE {})
        /\ checks_data = [valid |-> TRUE, value |-> <<check_name>>]
        /\ raises = {}
        /\ InitHandler
SpecTiers == InitTiers /\ [][Next]_vars

InitShapefile == InitCheck("Shapefile Processing")
SpecShapefile == InitShapefile /\ [][Next]_vars

-----------------------------------------------------------------------------
(* Vocabulary of the properties *)

Name(i) == results[i][1]
Status(i) == results[i][2]
Message(i) == results[i][3]

\* the handler has run exactly the one check c it was asked for
Ran(c) == selected_checks = <<c>> /\ Len(results) = 1

NamesFile(message, file) == \E i \in DOMAIN message : message[i].file = file
NamesColumn(message, col) ==
    \E i \in DOMAIN message : \E j \in DOMAIN message[i].names : message[i].names[j] = col
HasLine(message, text) == \E i \in DOMAIN message : message[i].text = text

\* the layers a check requires, as the catalogue states them
RequiredFiles(c) ==
    CASE c = "OSC Duplicates Check" -> {ClosuresFile}
      [] c = "Cable Reference Validation" ->
            {CablesFile(t) : t \in Tiers} \cup {PiecesFile(t) : t \in Tiers}
      [] c = "Shapefile Processing" -> {CablesFile("Feeder"), ClosuresFile}
      [] c = "GISTOOL_ID Validation" -> {UsedSegmentsFile}
      [] c = "Splice Count Report" -> {ClosuresFile, SplicesFile}
      [] c = "Cluster Overlap Check" -> {cluster_files[i] : i \in DOMAIN cluster_files}
      [] c = "Cable Granularity Check" -> {CablesFile(t) : t \in Tiers}
      [] c = "Non-virtual Closure Validation" -> {ClosuresFile}
      [] c = "Point Location Validation" -> {FeederPointsFile, PrimPointsFile}
      [] c = "Cable Diameter Validation" -> {cable_files[i] : i \in DOMAIN cable_files}

\* the columns a check requires of a layer, as the catalogue states them
RequiredCols(c, f) ==
    CASE c = "OSC Duplicates Check" -> {"LINKED_AGG"}
      [] c = "Cable Reference Validation" -> {"CABLE_ID"}
      [] c = "Shapefile Processing" ->
            IF f = ClosuresFile THEN {"IDENTIFIER", "VIRTUAL"} ELSE {"IDENTIFIER"}
      [] c = "GISTOOL_ID Validation" -> {"TYPE", "GISTOOL_ID", "ID"}
      [] c = "Splice Count Report" -> IF f = ClosuresFile THEN {"IDENTIFIER", "ID"} ELSE {"ID"}
      [] c = "Cluster Overlap Check" -> {}
      [] c = "Cable Granularity Check" -> {"CABLEGRAN", "BUNDLEGRAN", "CABLE_ID"}
      [] c = "Non-virtual Closure Validation" -> {"LAYER", "VIRTUAL", "EQ_ID"}
      [] c = "Point Location Validation" -> {}
      [] c = "Cable Diameter Validation" -> {"DIAMETER", "CABLE_ID"}

AbsentFiles(c, w) == {f \in RequiredFiles(c) : ~w[f].exists}
\* the layers present in the workspace that lack a required column
LackingLayers(c, w) ==
    {f \in RequiredFiles(c) : w[f].exists /\ ~(RequiredCols(c, f) \subseteq w[f].cols)}
MissingColumns(c, w, f) == RequiredCols(c, f) \ w[f].cols

\* the checks that read a fixed set of layers once, and the checks that
\* loop over several files
SingleLayerChecks ==
    {"OSC Duplicates Check", "Shapefile Processing", "GISTOOL_ID Validation",
     "Splice Count Report", "Non-virtual Closure Validation", "Point Location Validation"}
MultiFileChecks == CheckNames \ SingleLayerChecks

-----------------------------------------------------------------------------
(* C1: the dispatcher returns one result entry per requested name, in the  *)
(* caller's order: while it runs, results is the list of entries for a     *)
(* prefix of selected_checks, each carrying the name at its position, and  *)
(* when it returns the two lists have the same length (unknown names,      *)
(* repeated names and raising checks included).                            *)
C1_OneEntryPerRequestedName ==
    /\ Len(results) <= Len(selected_checks)
    /\ \A i \in DOMAIN results : Name(i) = selected_checks[i]
    /\ pc = "done" => Len(results) = Len(selected_checks)

C1_Witness ==
    /\ pc = "done"
    /\ Len(selected_checks) = 2
    /\ selected_checks[1] = "Unknown Check"
    /\ selected_checks[2] \in raises
    /\ Len(results) = 2

(* C4: a requested name outside the catalogue yields (name, null, "Check   *)
(* function not found"); the dispatcher does not stop there: when it       *)
(* returns, every catalogue name requested with it has the entry of its    *)
(* check function.                                                         *)
C4_UnknownNameNotFound ==
    /\ \A i \in DOMAIN results :
          selected_checks[i] \notin CheckNames => results[i] = NotFoundEntry(selected_checks[i])
    /\ pc = "done" =>
          \A i \in DOMAIN selected_checks :
             /\ i \in DOMAIN results
             /\ selected_checks[i] \in CheckNames \ raises =>
                   /\ Status(i) = CHECK_FUNCTIONS(selected_checks[i], ws).status
                   /\ Message(i) = CHECK_FUNCTIONS(selected_checks[i], ws).message

C4_Witness ==
    /\ pc = "done"
    /\ Len(results) = 2
    /\ results[1] = NotFoundEntry("Unknown Check")
    /\ Name(2) = "OSC Duplicates Check"
    /\ Status(2) = True

(* C5: a check function that raises is recorded as (name, null, "Error     *)
(* running check: <details>") and every check requested after it is still *)
(* executed: every iteration already passed has its entry, and a           *)
(* dispatcher that has stopped has passed every requested check.           *)
C5_RaisingCheckIsRecorded ==
    /\ \A i \in 1..(k - 1) :
          /\ i \in DOMAIN results
          /\ selected_checks[i] \in raises =>
                results[i] = ErrorEntry(selected_checks[i], EscapedError)
    /\ pc \in {"done", "error"} => k = Len(selected_checks) + 1

\* the first requested check raised and was recorded, and the check after
\* it ran on the valid workspace and passed
C5_Witness ==
    /\ pc = "done"
    /\ ws = ValidWorkspace
    /\ selected_checks = <<"OSC Duplicates Check", "Cable Reference Validation">>
    /\ raises = {"OSC Duplicates Check"}
    /\ results[1] = ErrorEntry("OSC Duplicates Check", EscapedError)
    /\ Name(2) = "Cable Reference Validation"
    /\ Status(2) = False

(* C2 as stated: for every check of the catalogue, when a required layer   *)
(* file is absent the status is null and the message names an absent file. *)
C2_AbsentFileIsIndeterminate ==
    \A c \in CheckNames :
        Ran(c) /\ AbsentFiles(c, ws) # {} =>
            /\ Status(1) = None
            /\ \E f \in AbsentFiles(c, ws) : NamesFile(Message(1), f)

(* C2 amended: for the checks that read a fixed set of layers once, an     *)
(* absent required file gives status null and a message naming an absent   *)
(* file; for the checks that loop over several files an absent file does   *)
(* not make the status null: the status is null only if a file that is     *)
(* present lacks a required column.                                        *)
C2_AbsentFileSingleLayerChecks ==
    \A c \in CheckNames :
        Ran(c) =>
            /\ c \in SingleLayerChecks /\ AbsentFiles(c, ws) # {} =>
                  /\ Status(1) = None
                  /\ \E f \in AbsentFiles(c, ws) : NamesFile(Message(1), f)
            /\ c \in MultiFileChecks /\ LackingLayers(c, ws) = {} => Status(1) # None

C2_Witness ==
    /\ Ran("Splice Count Report")
    /\ ws[ClosuresFile].exists
    /\ ~ws[SplicesFile].exists
    /\ Status(1) = None
    /\ NamesFile(Message(1), SplicesFile)

(* C3 as stated: for every check, when a loaded layer lacks a required     *)
(* column the status is null and the message names a missing column.       *)
C3_MissingColumnIsIndeterminate ==
    \A c \in CheckNames :
        Ran(c) /\ AbsentFiles(c, ws) = {} /\ LackingLayers(c, ws) # {} =>
            /\ Status(1) = None
            /\ \E f \in LackingLayers(c, ws) :
                  \E col \in MissingColumns(c, ws, f) : NamesColumn(Message(1), col)

\* the layers whose missing column makes the check return null
GuardedLayers(c) ==
    CASE c = "Shapefile Processing" -> {ClosuresFile}
      [] c \in {"Cable Granularity Check", "Cable Diameter Validation"} -> {}
      [] OTHER -> RequiredFiles(c)

\* the checks that test the columns before they read a row
ExplicitGuard == {"OSC Duplicates Check", "GISTOOL_ID Validation",
                  "Non-virtual Closure Validation", "Shapefile Processing"}

LastLine(message) == message[Len(message)]

(* C3 amended: with every required file present, a missing required column *)
(* gives null with a message naming a missing column in OSC Duplicates,    *)
(* GISTOOL_ID, Non-virtual Closure, Splice Count, Cable Reference and for  *)
(* the closures layer of Shapefile Processing; the first three and the     *)
(* closures layer test the columns before reading rows and the message     *)
(* ends with the line listing exactly the missing columns.  A missing      *)
(* feeder IDENTIFIER (Shapefile Processing, closures complete) and a       *)
(* missing CABLEGRAN or BUNDLEGRAN (Cable Granularity, CABLE_ID present)   *)
(* give true; a missing DIAMETER (CABLE_ID present) never gives null.      *)
C3_MissingColumnGuardedChecks ==
    \A c \in CheckNames :
        Ran(c) /\ AbsentFiles(c, ws) = {} =>
            LET lacking == LackingLayers(c, ws) \cap GuardedLayers(c)
            IN  /\ lacking # {} =>
                      /\ Status(1) = None
                      /\ \E f \in lacking :
                            \E col \in MissingColumns(c, ws, f) : NamesColumn(Message(1), col)
                /\ c \in ExplicitGuard /\ lacking # {} =>
                      \E f \in lacking :
                         {LastLine(Message(1)).names[j] : j \in DOMAIN LastLine(Message(1)).names}
                            = MissingColumns(c, ws, f)
                /\ c = "Shapefile Processing" /\ LackingLayers(c, ws) = {CablesFile("Feeder")} =>
                      Status(1) = True
                /\ /\ c = "Cable Granularity Check"
                   /\ LackingLayers(c, ws) # {}
                   /\ \A f \in RequiredFiles(c) : "CABLE_ID" \in ws[f].cols
                   => Status(1) = True
                /\ /\ c = "Cable Diameter Validation"
                   /\ \A f \in RequiredFiles(c) : "CABLE_ID" \in ws[f].cols
                   => Status(1) # None

C3_Witness ==
    /\ Ran("GISTOOL_ID Validation")
    /\ ws[UsedSegmentsFile].exists
    /\ ws[UsedSegmentsFile].cols = {"ID"}
    /\ Status(1) = None
    /\ LastLine(Message(1)).names = <<"TYPE", "GISTOOL_ID">>

\* the check could not execute on the workspace: a required file or a
\* required column is missing, or a point layer is empty
CouldNotExecute(c, w) ==
    \/ AbsentFiles(c, w) # {}
    \/ LackingLayers(c, w) # {}
    \/ /\ c = "Point Location Validation"
       /\ \E f \in RequiredFiles(c) : w[f].rows = <<>>

(* C6: a check returns null only when it could not execute (file missing,  *)
(* column missing, point layer empty); a check that evaluated its data     *)
(* returns true or false, and on the complete workspace that violates no   *)
(* rule every check returns false.                                         *)
C6_NullOnlyWhenNotExecuted ==
    \A c \in CheckNames :
        Ran(c) =>
            /\ Status(1) = None => CouldNotExecute(c, ws)
            /\ ~CouldNotExecute(c, ws) => Status(1) \in {True, False}
            /\ ws = ValidWorkspace => Status(1) = False

C6_Witness ==
    /\ Ran("Point Location Validation")
    /\ AbsentFiles("Point Location Validation", ws) = {}
    /\ ws[FeederPointsFile].rows = <<>>
    /\ Status(1) = None

(* C7 as stated: the Splice Count Report returns false whenever both       *)
(* OUT_Closures.shp and OUT_Splices.shp exist.                             *)
C7_SpliceReportFalseWhenFilesExist ==
    Ran("Splice Count Report") /\ AbsentFiles("Splice Count Report", ws) = {}
        => Status(1) = False

(* C7 amended: the Splice Count Report never returns true; it returns      *)
(* false whenever both files exist and carry the required columns          *)
(* (closures IDENTIFIER and ID, splices ID), also when closures exceeding  *)
(* their limit are listed; it returns null only when a required file or a  *)
(* required column is missing.                                             *)
C7_SpliceReportNeverFails ==
    Ran("Splice Count Report") =>
        /\ Status(1) # True
        /\ /\ AbsentFiles("Splice Count Report", ws) = {}
           /\ LackingLayers("Splice Count Report", ws) = {}
           => Status(1) = False
        /\ Status(1) = None =>
              \/ AbsentFiles("Splice Count Report", ws) # {}
              \/ LackingLayers("Splice Count Report", ws) # {}

C7_Witness ==
    /\ Ran("Splice Count Report")
    /\ HasLine(Message(1), "Found {n} closure(s) exceeding splice limits.")
    /\ Status(1) = False

(* C8: no check of the current engine modifies the workspace: every step   *)
(* of the handler leaves every layer file as it was, also when feeder      *)
(* cables have an empty or missing IDENTIFIER.                             *)
C8_ChecksDoNotModifyWorkspace == [][ws' = ws]_vars

C8_Witness ==
    /\ Ran("Shapefile Processing")
    /\ ws[CablesFile("Feeder")].exists
    /\ "IDENTIFIER" \in ws[CablesFile("Feeder")].cols
    /\ any(empty_identifier(ws[CablesFile("Feeder")].rows))
    /\ Status(1) = True

\* the entry a check produces when it runs alone on the workspace
Alone(check_name, w) == CHECK_FUNCTIONS(check_name, w)

\* a check is between two of its reads while another has already returned
Interleaved ==
    \E t, u \in DOMAIN threads :
        /\ threads[t].pos >= 1 /\ ~threads[t].returned
        /\ threads[t].pos < Len(reads(threads[t].name))
        /\ threads[u].returned

NoRepeatedValue(rows) ==
    \A v \in {rows[i].LINKED_AGG : i \in DOMAIN rows} :
        Cardinality({i \in DOMAIN rows : rows[i].LINKED_AGG = v}) < 2

(* C10: when OUT_Closures.shp exists with a LINKED_AGG column, OSC         *)
(* Duplicates Check returns false if and only if no LINKED_AGG value       *)
(* occurs in two or more rows, and true otherwise.                         *)
C10_OscPassIffNoRepeatedValue ==
    Ran("OSC Duplicates Check") /\ ws[ClosuresFile].exists
        /\ "LINKED_AGG" \in ws[ClosuresFile].cols
        => /\ Status(1) = False <=> NoRepeatedValue(ws[ClosuresFile].rows)
           /\ Status(1) = True <=> ~NoRepeatedValue(ws[ClosuresFile].rows)

C10_Witness ==
    /\ Ran("OSC Duplicates Check")
    /\ ws[ClosuresFile].exists
    /\ "LINKED_AGG" \in ws[ClosuresFile].cols
    /\ Column(ws[ClosuresFile].rows, "LINKED_AGG") = <<"A", "B", "A">>
    /\ Status(1) = True

\* the rows whose LINKED_AGG value occurs in at least two rows
RepeatedRows(rows) ==
    {i \in DOMAIN rows :
        Cardinality({j \in DOMAIN rows : rows[j].LINKED_AGG = rows[i].LINKED_AGG}) >= 2}

\* the number n of the line of a message with the given text
LineNumber(message, text) ==
    LET i == CHOOSE i \in DOMAIN message : message[i].text = text
    IN  message[i].n

(* C11: when OSC Duplicates Check fails, the message has the line "Total   *)
(* duplicated entries: n" where n is the number of rows whose LINKED_AGG   *)
(* value occurs at least twice, every occurrence counted; for the values   *)
(* [A, B, A] the status is true and n is 2.                                *)
C11_TotalCountsEveryOccurrence ==
    Ran("OSC Duplicates Check") /\ ws[ClosuresFile].exists
        /\ "LINKED_AGG" \in ws[ClosuresFile].cols
        => /\ Status(1) = True =>
                /\ HasLine(Message(1), "Total duplicated entries: {n}")
                /\ LineNumber(Message(1), "Total duplicated entries: {n}")
                      = Cardinality(RepeatedRows(ws[ClosuresFile].rows))
           /\ Column(ws[ClosuresFile].rows, "LINKED_AGG") = <<"A", "B", "A">> =>
                /\ Status(1) = True
                /\ LineNumber(Message(1), "Total duplicated entries: {n}") = 2

C11_Witness ==
    /\ Ran("OSC Duplicates Check")
    /\ ws[ClosuresFile].exists
    /\ Column(ws[ClosuresFile].rows, "LINKED_AGG") = <<"A", "A", "A">>
    /\ Status(1) = True
    /\ LineNumber(Message(1), "Total duplicated entries: {n}") = 3

\* the tiers whose cable file and cable-piece file both exist
LoadedTiers(w) == {t \in Tiers : w[CablesFile(t)].exists /\ w[PiecesFile(t)].exists}

\* every cable and cable-piece layer of a loaded tier has the key column
KeyColumnsPresent(w) ==
    \A t \in LoadedTiers(w) :
        "CABLE_ID" \in w[CablesFile(t)].cols /\ "CABLE_ID" \in w[PiecesFile(t)].cols

\* the CABLE_ID values of the pieces of tier t that no cable of the tier has
UnmatchedKeys(w, t) ==
    {w[PiecesFile(t)].rows[i].CABLE_ID : i \in DOMAIN w[PiecesFile(t)].rows}
        \ {w[CablesFile(t)].rows[i].CABLE_ID : i \in DOMAIN w[CablesFile(t)].rows}

TierLines(message, text, t) ==
    {i \in DOMAIN message : message[i].text = text /\ message[i].names = <<t>>}

\* the ids on the "Invalid CableIDs" line that follows the tier's "Found" line
ListedInvalidIds(message, t) ==
    LET i == CHOOSE i \in TierLines(message,
                  "{layer}CablePieces: Found {n} pieces with {m} invalid CableIDs", t) : TRUE
    IN  {message[i + 1].nums[j] : j \in DOMAIN message[i + 1].nums}

\* the cable layer and the cable-piece layer of the tier have the key column
TierHasKeys(w, t) ==
    "CABLE_ID" \in w[CablesFile(t)].cols /\ "CABLE_ID" \in w[PiecesFile(t)].cols

\* the tier is reported valid, and not as having invalid references
ReportedValid(message, t) ==
    /\ TierLines(message, "{layer}CablePieces: All CABLE_IDs are valid.", t) # {}
    /\ TierLines(message, "{layer}CablePieces: Found {n} pieces with {m} invalid CableIDs", t) = {}

\* the tier is reported with exactly the given invalid keys
ReportedInvalid(message, t, keys) ==
    /\ TierLines(message, "{layer}CablePieces: Found {n} pieces with {m} invalid CableIDs", t) # {}
    /\ ListedInvalidIds(message, t) = keys

(* C12 as stated: in Cable Reference Validation, for each tier whose cable *)
(* and piece files both exist: if every piece's CABLE_ID is in the tier's  *)
(* cable CABLE_ID set the tier is reported valid and does not set the      *)
(* issue flag; if some piece's CABLE_ID is not in the set the check        *)
(* returns true and the message lists the unmatched keys (cables [1,2]     *)
(* with pieces [1,2,3] lists 3).                                           *)
C12_CableReferencesPerTier ==
    Ran("Cable Reference Validation") =>
        /\ \A t \in LoadedTiers(ws) :
              TierHasKeys(ws, t) =>
                 /\ UnmatchedKeys(ws, t) = {} => ReportedValid(Message(1), t)
                 /\ UnmatchedKeys(ws, t) # {} =>
                       /\ Status(1) = True
                       /\ ReportedInvalid(Message(1), t, UnmatchedKeys(ws, t))
        /\ (\A t \in LoadedTiers(ws) : TierHasKeys(ws, t) /\ UnmatchedKeys(ws, t) = {})
              => Status(1) = False
        /\ /\ ws[CablesFile("Feeder")] = RefExampleCables
           /\ Column(ws[PiecesFile("Feeder")].rows, "CABLE_ID") = <<1, 2, 3>>
           => ListedInvalidIds(Message(1), "Feeder") = {3}

\* the place of a tier in the order Feeder, Drop, PrimDistribution,
\* Distribution
TierPlace(t) == CHOOSE i \in 1..4 : <<"Feeder", "Drop", "PrimDistribution", "Distribution">>[i] = t

\* the loaded tiers with no loaded tier before or at them that lacks the
\* key column in its cable or cable-piece layer
EvaluatedTiers(w) ==
    {t \in LoadedTiers(w) :
        \A u \in LoadedTiers(w) : TierPlace(u) <= TierPlace(t) => TierHasKeys(w, u)}

(* C12 amended: Cable Reference Validation returns null if and only if     *)
(* some tier whose cable and piece files both exist lacks the CABLE_ID     *)
(* column in one of the two layers; the tiers are evaluated in the order   *)
(* Feeder, Drop, PrimDistribution, Distribution up to the first such tier. *)
(* For each evaluated tier: if every piece's CABLE_ID is in the tier's     *)
(* cable CABLE_ID set the tier is reported valid and does not set the      *)
(* issue flag; if some piece's CABLE_ID is not in the set the message      *)
(* lists the unmatched keys (cables [1,2] with pieces [1,2,3] lists 3) and *)
(* the check returns true unless it returns null.  A tier after the first  *)
(* one that lacks the column is not reported.  With no unmatched key and   *)
(* no missing column the check returns false.                              *)
C12_CableReferencesPerEvaluatedTier ==
    Ran("Cable Reference Validation") =>
        /\ Status(1) = None <=> ~KeyColumnsPresent(ws)
        /\ \A t \in EvaluatedTiers(ws) :
              /\ UnmatchedKeys(ws, t) = {} => ReportedValid(Message(1), t)
              /\ UnmatchedKeys(ws, t) # {} =>
                    /\ Status(1) \in {True, None}
                    /\ ReportedInvalid(Message(1), t, UnmatchedKeys(ws, t))
        /\ \A t \in LoadedTiers(ws) \ EvaluatedTiers(ws) :
              /\ TierLines(Message(1), "{layer}CablePieces: All CABLE_IDs are valid.", t) = {}
              /\ TierLines(Message(1),
                    "{layer}CablePieces: Found {n} pieces with {m} invalid CableIDs", t) = {}
        /\ KeyColumnsPresent(ws) =>
              (Status(1) = True <=> \E t \in LoadedTiers(ws) : UnmatchedKeys(ws, t) # {})
        /\ KeyColumnsPresent(ws) =>
              (Status(1) = False <=> \A t \in LoadedTiers(ws) : UnmatchedKeys(ws, t) = {})
        /\ /\ ws[CablesFile("Feeder")] = RefExampleCables
           /\ Column(ws[PiecesFile("Feeder")].rows, "CABLE_ID") = <<1, 2, 3>>
           => ListedInvalidIds(Message(1), "Feeder") = {3}

\* the Feeder tier has the unmatched key 3 and is reported with it; the
\* Distribution cables have no CABLE_ID column and the check returns null
C12_Witness ==
    /\ Ran("Cable Reference Validation")
    /\ TierHasKeys(ws, "Feeder")
    /\ UnmatchedKeys(ws, "Feeder") = {3}
    /\ ReportedInvalid(Message(1), "Feeder", {3})
    /\ "CABLE_ID" \notin ws[CablesFile("Distribution")].cols
    /\ Status(1) = None

\* the cluster layers present in the workspace, and those with two
\* non-null geometries that intersect
LoadedClusters(w) == {f \in RequiredFiles("Cluster Overlap Check") : w[f].exists}
IntersectingPairs(rows) ==
    {p \in (DOMAIN rows) \X (DOMAIN rows) :
        /\ p[1] < p[2]
        /\ ~rows[p[1]].geometry.null /\ ~rows[p[2]].geometry.null
        /\ rows[p[1]].geometry.x1 <= rows[p[2]].geometry.x2
        /\ rows[p[2]].geometry.x1 <= rows[p[1]].geometry.x2
        /\ rows[p[1]].geometry.y1 <= rows[p[2]].geometry.y2
        /\ rows[p[2]].geometry.y1 <= rows[p[1]].geometry.y2}

\* the workspace with every tier that lacks a file replaced by a valid tier,
\* and with every absent cluster layer replaced by a disjoint one
AbsentTiersValid(w) ==
    [f \in FileNames |->
        IF \E t \in Tiers \ LoadedTiers(w) : f = CablesFile(t) THEN ValidCables
        ELSE IF \E t \in Tiers \ LoadedTiers(w) : f = PiecesFile(t) THEN ValidPieces
        ELSE w[f]]
AbsentClustersValid(w) ==
    [f \in FileNames |->
        IF f \in RequiredFiles("Cluster Overlap Check") /\ ~w[f].exists
        THEN ValidClusters ELSE w[f]]

\* the line of a message that has the given text and names the file
WarnsOf(message, text, file) ==
    \E i \in DOMAIN message : message[i].text = text /\ message[i].file = file

(* C13: in Cable Reference Validation and in Cluster Overlap Check a       *)
(* missing layer file is reported as a warning line naming it; it does not *)
(* set the issue flag and does not stop the remaining tiers or layers from *)
(* being evaluated: the status is the one the files that exist decide, the *)
(* same as if the absent tiers or layers were present and valid.           *)
C13_MissingFileIsOnlyAWarning ==
    /\ Ran("Cable Reference Validation") =>
          /\ \A t \in Tiers :
                /\ ~ws[CablesFile(t)].exists /\ Status(1) # None =>
                      WarnsOf(Message(1), "Cable file missing: {file}", CablesFile(t))
                /\ ws[CablesFile(t)].exists /\ ~ws[PiecesFile(t)].exists /\ Status(1) # None =>
                      WarnsOf(Message(1), "Cable piece file missing: {file}", PiecesFile(t))
          /\ Status(1) = check_invalid_cable_refs(AbsentTiersValid(ws)).status
          /\ KeyColumnsPresent(ws) =>
                /\ Status(1) = True <=> \E t \in LoadedTiers(ws) : UnmatchedKeys(ws, t) # {}
                /\ Status(1) = False <=> \A t \in LoadedTiers(ws) : UnmatchedKeys(ws, t) = {}
    /\ Ran("Cluster Overlap Check") =>
          /\ \A f \in RequiredFiles("Cluster Overlap Check") :
                ~ws[f].exists => WarnsOf(Message(1), "File not found: {file}", f)
          /\ Status(1) = check_cluster_overlaps(AbsentClustersValid(ws)).status
          /\ Status(1) = True <=> \E f \in LoadedClusters(ws) : IntersectingPairs(ws[f].rows) # {}
          /\ Status(1) = False <=> \A f \in LoadedClusters(ws) : IntersectingPairs(ws[f].rows) = {}

C13_Witness ==
    /\ Ran("Cable Reference Validation")
    /\ ~ws[CablesFile("Feeder")].exists
    /\ WarnsOf(Message(1), "Cable file missing: {file}", CablesFile("Feeder"))
    /\ UnmatchedKeys(ws, "Distribution") = {3}
    /\ ListedInvalidIds(Message(1), "Distribution") = {3}
    /\ Status(1) = True

\* the value is the empty string or missing
EmptyOrNull(v) == v = "" \/ v = NA

\* both layers of Shapefile Processing are loaded with their required columns
ShapefileLayersLoaded(w) ==
    /\ w[CablesFile("Feeder")].exists /\ "IDENTIFIER" \in w[CablesFile("Feeder")].cols
    /\ w[ClosuresFile].exists /\ {"IDENTIFIER", "VIRTUAL"} \subseteq w[ClosuresFile].cols

ShapefileViolation(w) ==
    \/ \E i \in DOMAIN w[CablesFile("Feeder")].rows :
          EmptyOrNull(w[CablesFile("Feeder")].rows[i].IDENTIFIER)
    \/ \E i \in DOMAIN w[ClosuresFile].rows :
          /\ w[ClosuresFile].rows[i].VIRTUAL = 0
          /\ EmptyOrNull(w[ClosuresFile].rows[i].IDENTIFIER)

(* C14: when both layers load with their required columns, Shapefile       *)
(* Processing returns true if and only if some FeederCables row has an     *)
(* empty or null IDENTIFIER or some Closures row has VIRTUAL == 0 with an   *)
(* empty or null IDENTIFIER; otherwise it returns false.                   *)
C14_ShapefileFailsIffEmptyIdentifier ==
    Ran("Shapefile Processing") /\ ShapefileLayersLoaded(ws) =>
        /\ Status(1) = True <=> ShapefileViolation(ws)
        /\ Status(1) = False <=> ~ShapefileViolation(ws)

C14_Witness ==
    /\ Ran("Shapefile Processing")
    /\ ShapefileLayersLoaded(ws)
    /\ \A i \in DOMAIN ws[CablesFile("Feeder")].rows :
          ~EmptyOrNull(ws[CablesFile("Feeder")].rows[i].IDENTIFIER)
    /\ \E i \in DOMAIN ws[ClosuresFile].rows :
          ws[ClosuresFile].rows[i].VIRTUAL = 1 /\ ws[ClosuresFile].rows[i].IDENTIFIER = NA
    /\ \E i \in DOMAIN ws[ClosuresFile].rows :
          ws[ClosuresFile].rows[i].VIRTUAL = 0 /\ ws[ClosuresFile].rows[i].IDENTIFIER = ""
    /\ Status(1) = True

SegmentsLoaded(w) == w[UsedSegmentsFile].exists /\ SegmentCols \subseteq w[UsedSegmentsFile].cols

\* an aerial or buried segment whose GISTOOL_ID is neither null nor empty
GistoolViolation(row) ==
    row.TYPE \in {"AERIAL", "BURIED"} /\ row.GISTOOL_ID # NA /\ row.GISTOOL_ID # ""

(* C15: when OUT_UsedSegments.shp loads with TYPE, GISTOOL_ID and ID,      *)
(* GISTOOL_ID Validation returns true if and only if some row has TYPE in  *)
(* {AERIAL, BURIED} and a GISTOOL_ID that is neither null nor the empty    *)
(* string, and false otherwise; rows of any other TYPE never cause a       *)
(* failure.                                                                *)
C15_GistoolFailsIffAerialBuriedNonEmpty ==
    Ran("GISTOOL_ID Validation") /\ SegmentsLoaded(ws) =>
        LET rows == ws[UsedSegmentsFile].rows
        IN  /\ Status(1) = True <=> \E i \in DOMAIN rows : GistoolViolation(rows[i])
            /\ Status(1) = False <=> \A i \in DOMAIN rows : ~GistoolViolation(rows[i])
            /\ (\A i \in DOMAIN rows : rows[i].TYPE \notin {"AERIAL", "BURIED"})
                  => Status(1) = False

C15_Witness ==
    /\ Ran("GISTOOL_ID Validation")
    /\ SegmentsLoaded(ws)
    /\ Column(ws[UsedSegmentsFile].rows, "TYPE") = <<"DUCT", "BURIED">>
    /\ Column(ws[UsedSegmentsFile].rows, "GISTOOL_ID") = <<"G1", "G1">>
    /\ Status(1) = True
    /\ LineNumber(Message(1), "Found {n} aerial/buried segments with non-empty GISTOOL_ID") = 1

SpliceLayersLoaded(w) ==
    /\ w[ClosuresFile].exists /\ {"IDENTIFIER", "ID"} \subseteq w[ClosuresFile].cols
    /\ w[SplicesFile].exists /\ "ID" \in w[SplicesFile].cols

\* the number of Splices rows whose ID equals the closure's ID
RowsSharingId(splices, id) ==
    Cardinality({i \in DOMAIN splices : id # NaN /\ splices[i].ID = id})

\* the closure rows the rule flags: the type has a limit and the count exceeds it
OverLimit(closures, splices) ==
    {i \in DOMAIN closures :
        /\ closures[i].IDENTIFIER \in DOMAIN MAX_SPLICE_LIMITS
        /\ RowsSharingId(splices, closures[i].ID) > MAX_SPLICE_LIMITS[closures[i].IDENTIFIER]}

FlaggedLine ==
    "{identifier} {closure_id} {splice_count} This closure exceeds the maximum number of splices which is {max_limit}"

\* the flagged closures of a message as <<type, ID, count>>, in order
FlaggedClosures(message) ==
    LET lines == Select(message, [i \in DOMAIN message |-> message[i].text = FlaggedLine])
    IN  [i \in DOMAIN lines |-> <<lines[i].names[1], lines[i].nums[1], lines[i].n>>]

ExpectedFlagged(closures, splices) ==
    LET rows == Select(closures, [i \in DOMAIN closures |-> i \in OverLimit(closures, splices)])
    IN  [i \in DOMAIN rows |->
            <<rows[i].IDENTIFIER, rows[i].ID, RowsSharingId(splices, rows[i].ID)>>]

(* C16: the Splice Count Report flags exactly the closure rows whose       *)
(* IDENTIFIER is a key of the limit table and whose splice count, the      *)
(* number of Splices rows whose ID equals the closure's ID, is strictly    *)
(* greater than the limit of the type.                                     *)
C16_FlagsExactlyClosuresOverLimit ==
    Ran("Splice Count Report") /\ SpliceLayersLoaded(ws) =>
        FlaggedClosures(Message(1)) = ExpectedFlagged(ws[ClosuresFile].rows, ws[SplicesFile].rows)

\* the ID columns of both layers have the same dtype
SameIdDtype(w) ==
    is_float(Column(w[ClosuresFile].rows, "ID")) = is_float(Column(w[SplicesFile].rows, "ID"))

(* C16 with ID columns of one dtype: the report flags exactly the closures *)
(* of a listed type whose count of splice rows with the same ID is         *)
(* strictly greater than the limit.                                        *)
C16_FlagsOverLimitSameDtype ==
    Ran("Splice Count Report") /\ SpliceLayersLoaded(ws) /\ SameIdDtype(ws) =>
        FlaggedClosures(Message(1)) = ExpectedFlagged(ws[ClosuresFile].rows, ws[SplicesFile].rows)

\* nine splices of closure 1, a POC_UG_1-8HP closure (limit 8), and a splice
\* without ID: the report finds every closure within its limit
C16_Witness ==
    /\ Ran("Splice Count Report")
    /\ SpliceLayersLoaded(ws)
    /\ Column(ws[ClosuresFile].rows, "IDENTIFIER") = <<"POC_UG_1-8HP">>
    /\ Column(ws[ClosuresFile].rows, "ID") = <<1>>
    /\ RowsSharingId(ws[SplicesFile].rows, 1) = 9
    /\ is_float(Column(ws[SplicesFile].rows, "ID"))
    /\ HasLine(Message(1), "All closures are within their maximum splice limits.")

\* the number on the line of a message with the given text for the file
FileLineNumber(message, text, file) ==
    LET i == CHOOSE i \in DOMAIN message : message[i].text = text /\ message[i].file = file
    IN  message[i].n

(* C17: for each cluster layer present, the overlap count reported by      *)
(* Cluster Overlap Check is the number of unordered pairs {i, j}, i # j,   *)
(* of features with non-null geometry whose geometries intersect: every    *)
(* pair is counted once and no feature is paired with itself; a layer      *)
(* without such a pair is reported as having no overlaps.                  *)
C17_OverlapCountIsUnorderedPairs ==
    Ran("Cluster Overlap Check") =>
        \A f \in LoadedClusters(ws) :
            LET pairs == IntersectingPairs(ws[f].rows)
            IN  /\ pairs # {} =>
                      /\ WarnsOf(Message(1), "{file}: {n} overlaps found:", f)
                      /\ FileLineNumber(Message(1), "{file}: {n} overlaps found:", f)
                            = Cardinality(pairs)
                /\ pairs = {} =>
                      /\ WarnsOf(Message(1), "{file}: No overlaps detected.", f)
                      /\ ~WarnsOf(Message(1), "{file}: {n} overlaps found:", f)

\* the three pairs of TripleClusters, with an index that holds the
\* features in descending order
C17_Witness ==
    /\ Ran("Cluster Overlap Check")
    /\ ws[cluster_files[7]] = Indexed(TripleClusters, <<3, 2, 1>>)
    /\ FileLineNumber(Message(1), "{file}: {n} overlaps found:", cluster_files[7]) = 3
    /\ \E i \in DOMAIN Message(1) :
          /\ Message(1)[i].nums = <<1, 4>>
          /\ Message(1)[i + 1].nums = <<1, 3>>
          /\ Message(1)[i + 2].nums = <<3, 4>>
    /\ Status(1) = True

\* the first cluster layer with two overlapping polygons added, away from
\* every other feature
TwoOverlappingAdded(w) ==
    Layer(ClusterCols,
          w[cluster_files[1]].rows
            \o << ClusterRow(Box(10, 12, 10, 12), 5, 5), ClusterRow(Box(11, 13, 11, 13), 6, 6) >>)

\* the overlap counts of a message, per cluster layer (0: none reported)
OverlapCounts(message) ==
    [f \in RequiredFiles("Cluster Overlap Check") |->
        IF WarnsOf(message, "{file}: {n} overlaps found:", f)
        THEN FileLineNumber(message, "{file}: {n} overlaps found:", f) ELSE 0]

(* C18: Cluster Overlap Check returns false when no layer present has two  *)
(* intersecting geometries; adding two overlapping polygons to a layer     *)
(* without intersections gives true with an overlap count of at least 1    *)
(* for that layer; and two runs on the same workspace, each with the       *)
(* spatial indexes it builds for itself, give the same status and the same *)
(* overlap count for every layer.                                          *)
C18_ClusterOverlapPassFailDeterministic ==
    /\ Len(results) >= 1 =>
          /\ (\A f \in LoadedClusters(ws) : IntersectingPairs(ws[f].rows) = {})
                => Status(1) = False
          /\ /\ ws[cluster_files[1]].exists
             /\ IntersectingPairs(ws[cluster_files[1]].rows) = {}
             /\ OverlapCounts(Message(1))[cluster_files[1]] = 0
             => \A added \in IndexedLayers(TwoOverlappingAdded(ws)) :
                    LET again == check_cluster_overlaps([ws EXCEPT ![cluster_files[1]] = added])
                    IN  /\ again.status = True
                        /\ OverlapCounts(again.message)[cluster_files[1]] >= 1
    /\ Len(results) = 2 =>
          /\ Status(1) = Status(2)
          /\ OverlapCounts(Message(1)) = OverlapCounts(Message(2))

\* two runs on the three pairwise intersecting boxes, the spatial index
\* rebuilt in another order in between: the pairs are listed in another
\* sequence, the status and the count are the same
C18_Witness ==
    /\ Len(results) = 2
    /\ ws[cluster_files[7]].rows = TripleClusters.rows
    /\ Message(1) # Message(2)
    /\ Status(1) = True
    /\ Status(2) = True
    /\ OverlapCounts(Message(1))[cluster_files[7]] = 3
    /\ OverlapCounts(Message(2))[cluster_files[7]] = 3

\* the tier cable files present in the workspace
LoadedCables(w) == {f \in RequiredFiles("Cable Granularity Check") : w[f].exists}

LacksGranularityField(layer) == ~({"CABLEGRAN", "BUNDLEGRAN"} \subseteq layer.cols)
HasInvalidGranularity(layer) ==
    /\ ~LacksGranularityField(layer)
    /\ \E i \in DOMAIN layer.rows : layer.rows[i].CABLEGRAN = -1 \/ layer.rows[i].BUNDLEGRAN = -1

\* some present tier file lacks a granularity field or has a row with -1
GranularityViolation(w) ==
    \E f \in LoadedCables(w) : LacksGranularityField(w[f]) \/ HasInvalidGranularity(w[f])

\* some present tier file has a row with -1 and no CABLE_ID column to
\* preview it with
PreviewColumnMissing(w) ==
    \E f \in LoadedCables(w) : HasInvalidGranularity(w[f]) /\ "CABLE_ID" \notin w[f].cols

(* C19 as stated: Cable Granularity Check returns true if and only if, for *)
(* at least one tier cable file that exists, CABLEGRAN or BUNDLEGRAN is    *)
(* missing entirely or some row has CABLEGRAN == -1 or BUNDLEGRAN == -1.   *)
C19_GranularityFailsIffViolation ==
    Ran("Cable Granularity Check") => (Status(1) = True <=> GranularityViolation(ws))

(* C19 amended: Cable Granularity Check returns null if and only if some   *)
(* existing tier file has a row with CABLEGRAN == -1 or BUNDLEGRAN == -1   *)
(* but no CABLE_ID column; otherwise it returns true if and only if, for   *)
(* at least one existing tier file, CABLEGRAN or BUNDLEGRAN is missing or  *)
(* some row has -1, and false if not; a tier whose file is absent is       *)
(* skipped with a warning naming it and does not affect the status.        *)
C19_GranularityFailsIffViolationWithCableId ==
    Ran("Cable Granularity Check") =>
        /\ Status(1) = None <=> PreviewColumnMissing(ws)
        /\ Status(1) = True <=> GranularityViolation(ws) /\ ~PreviewColumnMissing(ws)
        /\ Status(1) = False <=> ~GranularityViolation(ws)
        /\ \A f \in RequiredFiles("Cable Granularity Check") \ LoadedCables(ws) :
              /\ Status(1) # None => WarnsOf(Message(1), "Missing: {file}", f)
              /\ Status(1) = check_granularity_fields([ws EXCEPT ![f] = ValidCables]).status

C19_Witness ==
    /\ Ran("Cable Granularity Check")
    /\ ~ws[CablesFile("Feeder")].exists
    /\ WarnsOf(Message(1), "Missing: {file}", CablesFile("Feeder"))
    /\ HasInvalidGranularity(ws[CablesFile("PrimDistribution")])
    /\ "CABLE_ID" \in ws[CablesFile("PrimDistribution")].cols
    /\ Status(1) = True

NonVirtualLayerLoaded(w) ==
    w[ClosuresFile].exists /\ {"LAYER", "VIRTUAL", "EQ_ID"} \subseteq w[ClosuresFile].cols

\* a closure of a tier that must not be virtual, marked virtual
VirtualViolation(row) ==
    row.LAYER \in {"PrimDistribution", "Distribution", "Drop"} /\ row.VIRTUAL = 1

(* C20: when OUT_Closures.shp loads with LAYER, VIRTUAL and EQ_ID,         *)
(* Non-virtual Closure Validation returns true if and only if some closure *)
(* has LAYER in {PrimDistribution, Distribution, Drop} and VIRTUAL == 1,   *)
(* and false otherwise; closures of any other LAYER (Feeder) with          *)
(* VIRTUAL == 1 never cause a failure.                                     *)
C20_NonVirtualFailsIffVirtualClosure ==
    Ran("Non-virtual Closure Validation") /\ NonVirtualLayerLoaded(ws) =>
        LET rows == ws[ClosuresFile].rows
        IN  /\ Status(1) = True <=> \E i \in DOMAIN rows : VirtualViolation(rows[i])
            /\ Status(1) = False <=> \A i \in DOMAIN rows : ~VirtualViolation(rows[i])
            /\ Status(1) = True =>
                  LineNumber(Message(1), "Found {n} closures incorrectly marked as virtual:")
                     = Cardinality({i \in DOMAIN rows : VirtualViolation(rows[i])})

C20_Witness ==
    /\ Ran("Non-virtual Closure Validation")
    /\ NonVirtualLayerLoaded(ws)
    /\ Column(ws[ClosuresFile].rows, "LAYER") = <<"Feeder", "PrimDistribution">>
    /\ Column(ws[ClosuresFile].rows, "VIRTUAL") = <<1, 1>>
    /\ Status(1) = True
    /\ LineNumber(Message(1), "Found {n} closures incorrectly marked as virtual:") = 1

PointLayersLoaded(w) == w[FeederPointsFile].exists /\ w[PrimPointsFile].exists
PointLayersNonEmpty(w) == w[FeederPointsFile].rows # <<>> /\ w[PrimPointsFile].rows # <<>>

\* the square of the distance between the first feeder point and the first
\* prim-distribution point as their decimal coordinates give it, in
\* millionths of a square unit
FirstPointsDistance2(w) ==
    LET a == w[FeederPointsFile].rows[1]
        b == w[PrimPointsFile].rows[1]
    IN  (a.x - b.x) * (a.x - b.x) + (a.y - b.y) * (a.y - b.y)

\* the distance the check computes between the two first points, against
\* the tolerance: "below", "equal" or "above"
FirstPointsDistance(w) ==
    LET sign == IF FirstPointsDistance2(w) = 10 * 10
                THEN rounding(w[FeederPointsFile].rows[1], w[PrimPointsFile].rows[1])
                ELSE IF FirstPointsDistance2(w) < 10 * 10 THEN -1 ELSE 1
    IN  IF sign < 0 THEN "below" ELSE IF sign = 0 THEN "equal" ELSE "above"

(* C21: with both point layers non-empty, Point Location Validation        *)
(* returns true exactly when the distance between the first feeder point   *)
(* and the first prim-distribution point is strictly less than the         *)
(* tolerance (0.01 units); a distance equal to the tolerance returns       *)
(* false, as does any greater distance.                                    *)
C21_PointsTooCloseStrictlyBelowTolerance ==
    Ran("Point Location Validation") /\ PointLayersLoaded(ws) /\ PointLayersNonEmpty(ws) =>
        /\ Status(1) = True <=> FirstPointsDistance(ws) = "below"
        /\ Status(1) = False <=> FirstPointsDistance(ws) \in {"equal", "above"}
        /\ FirstPointsDistance(ws) = "equal" => Status(1) = False
        /\ FirstPointsDistance2(ws) < 10 * 10 => Status(1) = True
        /\ FirstPointsDistance2(ws) > 10 * 10 => Status(1) = False

C21_Witness ==
    /\ Ran("Point Location Validation")
    /\ ws[FeederPointsFile].rows = <<PointRow(0, 0)>>
    /\ ws[PrimPointsFile].rows = <<PointRow(6, 8)>>
    /\ FirstPointsDistance2(ws) = 10 * 10
    /\ FirstPointsDistance(ws) = "equal"
    /\ Status(1) = False

\* the workspace with each point layer cut down to its first feature
FirstFeaturesOnly(w) ==
    [w EXCEPT ![FeederPointsFile] = Layer({}, <<w[FeederPointsFile].rows[1]>>),
              ![PrimPointsFile] = Layer({}, <<w[PrimPointsFile].rows[1]>>)]

(* C22: with both point files present, Point Location Validation returns   *)
(* null when either layer has zero features; a layer with more than one    *)
(* feature only adds a warning giving its feature count: the first feature *)
(* of each layer is compared and the status is the one the first features  *)
(* alone give.                                                             *)
C22_EmptyLayerNullExtraFeaturesWarn ==
    Ran("Point Location Validation") /\ PointLayersLoaded(ws) =>
        /\ ~PointLayersNonEmpty(ws) => Status(1) = None
        /\ PointLayersNonEmpty(ws) =>
              /\ Status(1) \in {True, False}
              /\ Status(1) = validate_feeder_primdistribution_locations(FirstFeaturesOnly(ws)).status
              /\ Status(1) = True <=> FirstPointsDistance(ws) = "below"
              /\ \A f \in {FeederPointsFile, PrimPointsFile} :
                    IF Len(ws[f].rows) > 1
                    THEN /\ WarnsOf(Message(1), "Warning: {file} has {n} features (expected 1)", f)
                         /\ FileLineNumber(Message(1),
                               "Warning: {file} has {n} features (expected 1)", f) = Len(ws[f].rows)
                    ELSE ~WarnsOf(Message(1), "Warning: {file} has {n} features (expected 1)", f)

C22_Witness ==
    /\ Ran("Point Location Validation")
    /\ ws[FeederPointsFile].rows = <<PointRow(0, 0), PointRow(10, 0)>>
    /\ ws[PrimPointsFile].rows = <<PointRow(10, 0), PointRow(0, 0)>>
    /\ WarnsOf(Message(1), "Warning: {file} has {n} features (expected 1)", FeederPointsFile)
    /\ Status(1) = False

DiameterFiles == RequiredFiles("Cable Diameter Validation")

\* the cable files that loaded with a DIAMETER column
WithDiameter(w) == {f \in DiameterFiles : w[f].exists /\ "DIAMETER" \in w[f].cols}

\* the layer has a row whose DIAMETER is null or zero
HasInvalidDiameter(layer) ==
    \E i \in DOMAIN layer.rows : layer.rows[i].DIAMETER = NaN \/ layer.rows[i].DIAMETER = 0

DiameterViolation(w) == \E f \in WithDiameter(w) : HasInvalidDiameter(w[f])

\* a file with an invalid DIAMETER has no CABLE_ID column for the sample
SampleColumnMissing(w) ==
    \E f \in WithDiameter(w) : HasInvalidDiameter(w[f]) /\ "CABLE_ID" \notin w[f].cols

\* the message has a line about the file: not found, no DIAMETER column,
\* invalid diameters found, or all valid
ReportsFile(message, f) ==
    \/ WarnsOf(message, "Error: {file} not found in workspace", f)
    \/ WarnsOf(message, "Error: {file} is missing DIAMETER column", f)
    \/ WarnsOf(message, "PROBLEM: Found {n} cables with invalid diameters in {file}", f)
    \/ WarnsOf(message, "{file}: All cables have valid diameters", f)

(* C23 as stated: Cable Diameter Validation returns true whenever any row  *)
(* of any of the three cable files has a null or zero DIAMETER, and a      *)
(* violation, a missing file or a missing column in one file does not      *)
(* prevent the later files from being evaluated and reported.              *)
C23_DiameterFailsOnAnyInvalidRow ==
    Ran("Cable Diameter Validation") =>
        /\ DiameterViolation(ws) => Status(1) = True
        /\ \A f \in DiameterFiles : ReportsFile(Message(1), f)

(* C23 amended: when every file that has a row with null or zero DIAMETER  *)
(* also has the CABLE_ID column, Cable Diameter Validation returns true    *)
(* whenever any row of any of the three files has a null or zero DIAMETER, *)
(* and every file is evaluated and reported whatever the earlier files     *)
(* gave (violation, missing file, missing column); when such a file lacks  *)
(* CABLE_ID the check returns null.                                        *)
C23_DiameterFailsOnAnyInvalidRowWithCableId ==
    Ran("Cable Diameter Validation") =>
        /\ SampleColumnMissing(ws) => Status(1) = None
        /\ ~SampleColumnMissing(ws) =>
              /\ DiameterViolation(ws) => Status(1) = True
              /\ \A f \in DiameterFiles : ReportsFile(Message(1), f)
              /\ \A f \in WithDiameter(ws) :
                    IF HasInvalidDiameter(ws[f])
                    THEN WarnsOf(Message(1),
                            "PROBLEM: Found {n} cables with invalid diameters in {file}", f)
                    ELSE WarnsOf(Message(1), "{file}: All cables have valid diameters", f)

C23_Witness ==
    /\ Ran("Cable Diameter Validation")
    /\ ~ws[cable_files[1]].exists
    /\ HasInvalidDiameter(ws[cable_files[2]])
    /\ WarnsOf(Message(1), "Error: {file} not found in workspace", cable_files[1])
    /\ WarnsOf(Message(1), "PROBLEM: Found {n} cables with invalid diameters in {file}",
               cable_files[2])
    /\ WarnsOf(Message(1), "{file}: All cables have valid diameters", cable_files[3])
    /\ Status(1) = True

\* the workspace with every cable file that is absent or lacks DIAMETER
\* replaced by a valid one
UnloadedCablesValid(w) ==
    [f \in FileNames |-> IF f \in DiameterFiles \ WithDiameter(w) THEN ValidCables ELSE w[f]]

(* C27 as stated: a missing cable file or a file without DIAMETER only     *)
(* appends an error line; the status is true if and only if at least one   *)
(* file that loaded with a DIAMETER column has a null or zero DIAMETER, so *)
(* a workspace without the three files returns false.                      *)
C27_DiameterStatusIffInvalidRow ==
    Ran("Cable Diameter Validation") =>
        /\ Status(1) = True <=> DiameterViolation(ws)
        /\ WithDiameter(ws) = {} => Status(1) = False

(* C27 amended: a missing cable file or a file without DIAMETER only       *)
(* appends an error line and never changes the status, which is the one    *)
(* obtained with these files replaced by valid ones.  The status is null   *)
(* if and only if a file with a null or zero DIAMETER lacks the CABLE_ID   *)
(* column; otherwise it is true if and only if at least one file that      *)
(* loaded with a DIAMETER column has a null or zero DIAMETER; a workspace  *)
(* without the three files returns false, without the closing "all valid"  *)
(* line.                                                                   *)
C27_MissingDiameterFileNeverChangesStatus ==
    Ran("Cable Diameter Validation") =>
        /\ Status(1) = validate_cable_diameters(UnloadedCablesValid(ws)).status
        /\ Status(1) = None <=> SampleColumnMissing(ws)
        /\ Status(1) = True <=> DiameterViolation(ws) /\ ~SampleColumnMissing(ws)
        /\ Status(1) = False <=> ~DiameterViolation(ws)
        /\ WithDiameter(ws) = {} =>
              /\ Status(1) = False
              /\ ~HasLine(Message(1), "All cable files have valid diameter values")
        /\ Status(1) # None =>
              \A f \in DiameterFiles \ WithDiameter(ws) :
                  IF ws[f].exists
                  THEN WarnsOf(Message(1), "Error: {file} is missing DIAMETER column", f)
                  ELSE WarnsOf(Message(1), "Error: {file} not found in workspace", f)

C27_Witness ==
    /\ Ran("Cable Diameter Validation")
    /\ ws = EmptyWorkspace
    /\ Status(1) = False
    /\ \A f \in DiameterFiles : WarnsOf(Message(1), "Error: {file} not found in workspace", f)

-----------------------------------------------------------------------------
(* C24: the default catalogue substituted for an empty selection *)

\* the caller sent no usable list: an empty list or text that is not JSON
EmptySelection == ~checks_data.valid \/ checks_data.value = <<>>

\* the handler has returned
Returned == pc = "done"

AllPassed == \A i \in DOMAIN results : Status(i) = False

\* C24: when the caller supplies an empty or unparsable check-name list the
\* handler runs the default catalogue of 10 names, each one a key of the
\* dispatch table (no "Check function not found" entry); on the complete,
\* fully valid workspace with no check raising, the response holds exactly
\* 10 results, in catalogue order, every one with status false.
C24_EmptySelectionRunsDefaultCatalogue ==
    (EmptySelection /\ pc # "parse") =>
        /\ Len(selected_checks) = 10
        /\ Cardinality({selected_checks[i] : i \in DOMAIN selected_checks}) = 10
        /\ \A i \in DOMAIN selected_checks : selected_checks[i] \in CheckNames
        /\ selected_checks = << "OSC Duplicates Check", "Cluster Overlap Check",
                                "Cable Granularity Check",
                                "Non-virtual Closure Validation",
                                "Point Location Validation",
                                "Cable Diameter Validation",
                                "Cable Reference Validation", "Shapefile Processing",
                                "GISTOOL_ID Validation", "Splice Count Report" >>
        /\ \A i \in DOMAIN results :
               /\ Name(i) = selected_checks[i]
               /\ ~HasLine(Message(i), "Check function not found")
        /\ (Returned /\ ws = ValidWorkspace /\ raises = {}) =>
               /\ Len(results) = 10
               /\ AllPassed

C24_Witness ==
    /\ EmptySelection
    /\ ~checks_data.valid
    /\ Returned
    /\ ws = ValidWorkspace
    /\ raises = {}
    /\ Len(results) = 10
    /\ AllPassed

-----------------------------------------------------------------------------
(* C25: the tri-state polarity, from the checks to the report *)

\* the entry records a check that could not be run or decided
NotExecuted(i) ==
    \/ Name(i) \notin CheckNames
    \/ Name(i) \in raises
    \/ Name(i) \in SingleLayerChecks /\ AbsentFiles(Name(i), ws) # {}

\* C25: every recorded status is one of false, true and null; the report
\* labels a result Passed exactly when its status is false, Failed exactly
\* when it is true and Error otherwise.  A check of the complete valid
\* workspace is labelled Passed, and an entry for an unknown name, a raising
\* check or a single-layer check whose layer is absent has status null and
\* is labelled Error, never Passed.
C25_PolarityPreservedToReport ==
    \A i \in DOMAIN results :
        /\ Status(i) \in {False, True, None}
        /\ status_text(Status(i)) = "Passed" <=> Status(i) = False
        /\ status_text(Status(i)) = "Failed" <=> Status(i) = True
        /\ status_text(Status(i)) = "Error" <=> Status(i) = None
        /\ (ws = ValidWorkspace /\ Name(i) \in CheckNames \ raises)
               => status_text(Status(i)) = "Passed"
        /\ NotExecuted(i) => /\ Status(i) = None
                             /\ status_text(Status(i)) = "Error"

C25_Witness ==
    /\ pc = "done"
    /\ Len(results) = 2
    /\ Status(1) = None
    /\ status_text(Status(1)) = "Error"
    /\ Status(2) = True
    /\ status_text(Status(2)) = "Failed"

-----------------------------------------------------------------------------
(* C26: Shapefile Processing, Indeterminate before a detected issue *)

\* the feeder layer is loaded and the feeder step has set the issue flag
\* for empty IDENTIFIER values
FeederFlagged(w) ==
    /\ w[CablesFile("Feeder")].exists
    /\ "IDENTIFIER" \in w[CablesFile("Feeder")].cols
    /\ \E i \in DOMAIN w[CablesFile("Feeder")].rows :
          EmptyOrNull(w[CablesFile("Feeder")].rows[i].IDENTIFIER)

\* OUT_Closures.shp is missing or lacks IDENTIFIER or VIRTUAL
ClosuresUnreadable(w) ==
    \/ ~w[ClosuresFile].exists
    \/ ~({"IDENTIFIER", "VIRTUAL"} \subseteq w[ClosuresFile].cols)

FeederFinding ==
    "Feeder cables: {n} record(s) have empty IDENTIFIER and require attention"

\* C26: when the feeder layer has empty IDENTIFIER values but the closures
\* layer is missing or lacks IDENTIFIER/VIRTUAL, Shapefile Processing returns
\* null, not true: the feeder finding is a line of the message only, and the
\* message ends with the closures error.
C26_IndeterminateBeforeFeederIssue ==
    (Ran("Shapefile Processing") /\ FeederFlagged(ws) /\ ClosuresUnreadable(ws)) =>
        /\ Status(1) = None
        /\ HasLine(Message(1), FeederFinding)
        /\ LET last == Message(1)[Len(Message(1))]
           IN  IF ws[ClosuresFile].exists
               THEN last.text = "Error: Missing columns in closures: {cols}"
               ELSE last.file = ClosuresFile

C26_Witness ==
    /\ Ran("Shapefile Processing")
    /\ FeederFlagged(ws)
    /\ ws[ClosuresFile].exists
    /\ "VIRTUAL" \notin ws[ClosuresFile].cols
    /\ Status(1) = None
    /\ HasLine(Message(1), FeederFinding)

-----------------------------------------------------------------------------
(* C28: the checks that loop over several tiers or files *)

\* processing some tier or file of check c raises: a loaded tier without
\* CABLE_ID in its cables or pieces; an invalid granularity or diameter row
\* in a file without the CABLE_ID column of the preview; a cluster file
\* that cannot be read
SomeTierRaises(c, w) ==
    CASE c = "Cable Reference Validation" -> ~KeyColumnsPresent(w)
      [] c = "Cable Granularity Check" -> PreviewColumnMissing(w)
      [] c = "Cable Diameter Validation" -> SampleColumnMissing(w)
      [] c = "Cluster Overlap Check" ->
            \E f \in LoadedClusters(w) : "unreadable" \in DOMAIN w[f]

\* some tier or file of check c sets the issue flag
SomeTierFlags(c, w) ==
    CASE c = "Cable Reference Validation" ->
            \E t \in LoadedTiers(w) :
                /\ "CABLE_ID" \in w[CablesFile(t)].cols
                /\ "CABLE_ID" \in w[PiecesFile(t)].cols
                /\ UnmatchedKeys(w, t) # {}
      [] c = "Cable Granularity Check" -> GranularityViolation(w)
      [] c = "Cable Diameter Validation" -> DiameterViolation(w)
      [] c = "Cluster Overlap Check" ->
            \E f \in LoadedClusters(w) : IntersectingPairs(w[f].rows) # {}

TierChecks ==
    {"Cable Reference Validation", "Cable Granularity Check", "Cluster Overlap Check",
     "Cable Diameter Validation"}

\* C28: in the multi-tier checks an exception raised while a tier or file is
\* processed makes the whole check return null, also when an earlier tier
\* had set the issue flag; when no tier raises, the flag is monotone: the
\* status is true exactly when some tier set it and false otherwise.
C28_LaterExceptionDiscardsEarlierIssue ==
    \A c \in TierChecks :
        Ran(c) =>
            /\ SomeTierRaises(c, ws) => Status(1) = None
            /\ ~SomeTierRaises(c, ws) =>
                  /\ Status(1) = True <=> SomeTierFlags(c, ws)
                  /\ Status(1) = False <=> ~SomeTierFlags(c, ws)

\* the Feeder tier has a dangling cable piece and the cables of the
\* Distribution tier, processed later, have no CABLE_ID column
C28_Witness ==
    /\ Ran("Cable Reference Validation")
    /\ "CABLE_ID" \in ws[CablesFile("Feeder")].cols
    /\ "CABLE_ID" \in ws[PiecesFile("Feeder")].cols
    /\ ws[CablesFile("Feeder")].exists /\ ws[PiecesFile("Feeder")].exists
    /\ UnmatchedKeys(ws, "Feeder") # {}
    /\ ws[CablesFile("Distribution")].exists
    /\ "CABLE_ID" \notin ws[CablesFile("Distribution")].cols
    /\ HasLine(Message(1), "{layer}CablePieces: Found {n} pieces with {m} invalid CableIDs")
    /\ Status(1) = None

-----------------------------------------------------------------------------
(* C29: the historical process_shapefiles run twice *)

\* every row of the feeder layer has an IDENTIFIER that is neither empty
\* nor missing
FeederPopulated(w) ==
    /\ "IDENTIFIER" \in w[CablesFile("Feeder")].cols
    /\ \A i \in DOMAIN w[CablesFile("Feeder")].rows :
          ~EmptyOrNull(w[CablesFile("Feeder")].rows[i].IDENTIFIER)

\* the status the closures layer alone determines
ClosuresStatus(w) ==
    IF ClosuresUnreadable(w) THEN None
    ELSE IF \E i \in DOMAIN w[ClosuresFile].rows :
                /\ w[ClosuresFile].rows[i].VIRTUAL = 0
                /\ EmptyOrNull(w[ClosuresFile].rows[i].IDENTIFIER)
    THEN True ELSE False

FirstRunDone == pc # "error" /\ Len(results) >= 1 /\ ws[CablesFile("Feeder")].exists

\* C29: after one run of the historical process_shapefiles that reaches the
\* feeder step, every FeederCables row has a non-empty IDENTIFIER; the
\* status of each run is the one the closures layer determines; the second
\* run writes nothing and returns the status of the first.
C29_HistoricalShapefileProcessingIdempotent ==
    /\ [](FirstRunDone =>
            /\ FeederPopulated(ws)
            /\ \A i \in DOMAIN results : Status(i) = ClosuresStatus(ws)
            /\ Len(results) = 2 => Status(2) = Status(1))
    /\ [][Len(results) >= 1 => ws' = ws]_vars

\* the first run filled an empty IDENTIFIER and the second run has returned
C29_Witness ==
    /\ Len(results) = 2
    /\ ws[CablesFile("Feeder")].exists
    /\ \E i \in DOMAIN ws[CablesFile("Feeder")].rows :
          ws[CablesFile("Feeder")].rows[i].IDENTIFIER = "Breakout"
    /\ HasLine(Message(1),
               "Feeder cables: IDENTIFIER column needs to be updated with 'Breakout' values")
    /\ HasLine(Message(2), "Feeder cables: IDENTIFIER column was already populated")
    /\ Status(1) = True
    /\ Status(2) = True

-----------------------------------------------------------------------------
(* C30: the extraction directory when the handler returns *)

\* the handler has returned a response: 200 with the results, 400 for an
\* archive without workspace, or 500 from the outer exception handler
Responded == pc \in {"done", "not_found", "error"}

\* C30: on every return path of the validate handler taken after the
\* archive has been extracted (workspace not found, checks completed, or an
\* error raised after extraction such as a 'checks' value that is not a
\* list), the temporary extraction directory has been removed before the
\* response is returned.
C30_ExtractionDirectoryRemovedOnEveryReturn ==
    Responded => ~extract_dir

\* the 'checks' field is the JSON number 5: the 500 response is returned
\* and the directory is still there
C30_Witness ==
    /\ pc = "error"
    /\ is_number(checks_data)
    /\ checks_data.value = 5
    /\ DOMAIN ws # {}
    /\ extract_dir

\* the two paths that do remove the directory
C30_CleanupOnCompletedAndNotFound ==
    pc \in {"done", "not_found"} => ~extract_dir

====
